---- MODULE Spec2Model ----
(***************************************************************************)
(* Model of the chunking-and-stitching subsystem of roth-vectors.          *)
(*                                                                         *)
(* A string is a sequence of units.  A unit is either a whitespace         *)
(* character or an indivisible run of non-whitespace characters; the two   *)
(* marker literals <OVERLAP_START> and <OVERLAP_END> are units of their    *)
(* own.  String.split(/\s+/) never cuts inside a non-whitespace run, so    *)
(* units behave under tokenisation exactly as characters do.               *)
(***************************************************************************)
EXTENDS Integers, Sequences, FiniteSets, TLC

(* ----------------------------- bounds ---------------------------------- *)
MaxLen == 5
MaxWords == 25
MaxChunkSize == 10
MaxSmallChunkSize == 2
MaxOverlap == 3
MaxChunks == MaxWords + 2
MaxFiles == 3
MaxDocFiles == 2
MaxReadErrors == 1

MaxVariant == 2

MaxContentLen == 4

MaxChars == 10

MaxCharChunkSize == 4

MaxTasks == 4

MaxLimit == 3

MaxFaults == 1

MaxReady == 3

MaxBatch == 2

MaxEmbedLimit == 2

(* ----------------------------- strings --------------------------------- *)
OVERLAP_START == "<OVERLAP_START>"
OVERLAP_END == "<OVERLAP_END>"
SP == " "
WhiteSpace == {" ", "\n", "\t"}
Alphabet == {SP, "a", OVERLAP_START, OVERLAP_END}

Min(a, b) == IF a < b THEN a ELSE b
Max(a, b) == IF a > b THEN a ELSE b

RECURSIVE SeqsUpTo(_, _)
SeqsUpTo(S, n) ==
  IF n = 0 THEN {<<>>}
  ELSE LET prev == SeqsUpTo(S, n - 1)
       IN prev \cup {Append(s, x) : s \in {p \in prev : Len(p) = n - 1}, x \in S}

(* Array.prototype.slice(from, to) with JavaScript's index normalisation. *)
Slice(s, from, to) ==
  LET n == Len(s)
      f == IF from < 0 THEN Max(n + from, 0) ELSE Min(from, n)
      t == IF to < 0 THEN Max(n + to, 0) ELSE Min(to, n)
  IN SubSeq(s, f + 1, t)

(* text.split(/\s+/).filter((token) => token.length > 0) *)
RECURSIVE SplitWs(_, _, _, _)
SplitWs(t, i, cur, acc) ==
  IF i > Len(t)
  THEN IF cur = <<>> THEN acc ELSE Append(acc, cur)
  ELSE IF t[i] \in WhiteSpace
       THEN SplitWs(t, i + 1, <<>>, IF cur = <<>> THEN acc ELSE Append(acc, cur))
       ELSE SplitWs(t, i + 1, Append(cur, t[i]), acc)

Tokenize(t) == SplitWs(t, 1, <<>>, <<>>)

(* Array.prototype.join(" ") over an array of strings. *)
RECURSIVE Join(_)
Join(toks) ==
  IF Len(toks) = 0 THEN <<>>
  ELSE IF Len(toks) = 1 THEN toks[1]
       ELSE toks[1] \o <<SP>> \o Join(Tail(toks))

countTokens(t) == Len(Tokenize(t))

MarkedChunk_Unterminated(cur, ov) ==
  <<OVERLAP_START, SP>> \o Join(Slice(cur, 0, ov)) \o <<SP>>
    \o Join(Slice(cur, ov, Len(cur)))

(* The marked form of a chunk: the template literal of the window loop. *)
MarkedChunk(cur, ov) ==
  <<OVERLAP_START, SP>> \o Join(Slice(cur, 0, ov)) \o <<SP, OVERLAP_END, SP>>
    \o Join(Slice(cur, ov, Len(cur)))

MakeChunk_ShortUnmarked(st, cur, ov) ==
  IF st > 0 /\ Len(cur) > ov + 1 THEN MarkedChunk(cur, ov) ELSE Join(cur)

MakeChunk_MarksFirst(st, cur, ov) ==
  IF st >= 0 /\ Len(cur) > ov THEN MarkedChunk(cur, ov) ELSE Join(cur)

MakeChunk(st, cur, ov) ==
  IF st > 0 /\ Len(cur) > ov THEN MarkedChunk(cur, ov) ELSE Join(cur)

WindowEnd_Short(st, size, n) == Min(st + size - 1, n)

WindowEnd(st, size, n) == Min(st + size, n)

NextStart_NoOverlap(e, ov) == e

NextStart_Stalls(e, ov) == e - ov - 1

NextStart_OffByOne(e, ov) == e - ov + 1

NextStart(e, ov) == e - ov

(* ----------------------------- state ----------------------------------- *)
(* The chunker call and the driver around it: the arguments, the locals of *)
(* splitIntoChunks, the window of every iteration so far, the driver's     *)
(* loop index and the line it logged last.                                 *)
VARIABLES text, chunkSize, overlap, tokens, start, chunks, windows, pc,
          wi, logged

(* The stitcher: the cleansed folder (names returned by readdir, in the   *)
(* order readdir returns them, and the names whose readFile rejects), the  *)
(* groups map, the loop position, what each group produced, the stitched   *)
(* folder, the metadata object and the metadata side-file.                 *)
VARIABLES fileNames, unreadable, groups, gi, stitchLog, stitchedFolder,
          stitchMetadata, metadataFile, spc

(* The re-indexer (stitchCleaned.ts): the listing of the clean folder, the *)
(* source files that yield no chunk list and why, which chunk lists the    *)
(* files hold, the groups, the number of groups processed, what each       *)
(* processed group produced, the clean_stiched folder, the metadata        *)
(* object, stichfile.json, and the position in main.                       *)
VARIABLES jsonFileNames, damaged, damage, variant, jsonGroups, ri,
          reindexLog, cleanStitched, reindexMetadata, reindexMetadataFile,
          rpc

NoLine == [kind |-> "none", chunkNumber |-> 0, tokenCount |-> 0]

chunkerVars == <<text, chunkSize, overlap, tokens, start, chunks, windows, pc,
                 wi, logged>>

stitchVars == <<fileNames, unreadable, groups, gi, stitchLog, stitchedFolder,
                stitchMetadata, metadataFile, spc>>

reindexVars == <<jsonFileNames, damaged, damage, variant, jsonGroups, ri,
                 reindexLog, cleanStitched, reindexMetadata,
                 reindexMetadataFile, rpc>>

(* The character-mode splitter (second program of stich.ts): the stitched  *)
(* file it is working on and whether it can be read, its two constants,    *)
(* the file's content, the loop index, the chunks and the windows they     *)
(* were cut from, the number of chunks handed to writeFile, the last write *)
(* and the position in main.                                               *)
VARIABLES splitFileName, splitReadable, CHUNK_SIZE, OVERLAP, content,
          startIndex, charChunks, charWindows, si, splitWritten, cpc

splitVars == <<splitFileName, splitReadable, CHUNK_SIZE, OVERLAP, content,
               startIndex, charChunks, charWindows, si, splitWritten, cpc>>

NoWrite == [kind |-> "none", outputFileName |-> <<>>, chunkContent |-> <<>>]

SplitIdle ==
  /\ splitFileName = <<>>
  /\ splitReadable = TRUE
  /\ CHUNK_SIZE = 1
  /\ OVERLAP = 0
  /\ content = <<>>
  /\ startIndex = 0
  /\ charChunks = <<>>
  /\ charWindows = <<>>
  /\ si = 0
  /\ splitWritten = NoWrite
  /\ cpc = "idle"

(* runConcurrent (finetune/main.ts, vector.ts): the task list (how each    *)
(* task's promise settles), the limit, the closure variables index,        *)
(* running and results, what has become of each task, how often each task  *)
(* was called, the state of the returned promise, and how often resolve    *)
(* was called.                                                             *)
VARIABLES tasks, limit, index, running, results, taskState, starts, promise,
          resolveCalls

limiterVars == <<tasks, limit, index, running, results, taskState, starts,
                 promise, resolveCalls>>

(* The cleaning drivers (vector.ts cleansing, finetune/main.ts): which of  *)
(* the two runs, the listing of its input folder, the file whose handling  *)
(* fails and how, the output folder, the files sent to the cleaning API,   *)
(* the position of each processFile call, and the position of main.        *)
VARIABLES stage, inputFiles, faulty, fault, outputFolder, sentToOpenAI,
          filePc, mpc

cleanVars == <<stage, inputFiles, faulty, fault, outputFolder, sentToOpenAI,
               filePc, mpc>>

Hole == "<empty>"

LimiterIdle ==
  /\ tasks = <<>>
  /\ limit = 1
  /\ index = 0
  /\ running = 0
  /\ results = <<>>
  /\ taskState = <<>>
  /\ starts = <<>>
  /\ promise = "none"
  /\ resolveCalls = 0

CleanIdle ==
  /\ stage = "none"
  /\ inputFiles = <<>>
  /\ faulty = {}
  /\ fault = "none"
  /\ outputFolder = <<>>
  /\ sentToOpenAI = {}
  /\ filePc = <<>>
  /\ mpc = "idle"

(* The embedding driver (vector.ts): its three limits, the listing of the  *)
(* ready folder, the names in processed_files.json when the run starts and *)
(* now, the vectors the store holds, the Set main works with, the files    *)
(* selected for the run, the batch main is at, the position of each        *)
(* processFile call with the chunk it is at and the chunk numbers of the   *)
(* vectors it has pushed, and the position of main.                        *)
VARIABLES FILE_PROCESS_LIMIT, CONCURRENCY_LIMIT, TOTAL_FILE_LIMIT,
          readyFolder, logAtStart, processedLog, store, processedFiles,
          limited, batchIdx, embedPc, chunkAt, vectorsOf, epc

embedVars == <<FILE_PROCESS_LIMIT, CONCURRENCY_LIMIT, TOTAL_FILE_LIMIT,
               readyFolder, logAtStart, processedLog, store, processedFiles,
               limited, batchIdx, embedPc, chunkAt, vectorsOf, epc>>

EmbedIdle ==
  /\ FILE_PROCESS_LIMIT = 1
  /\ CONCURRENCY_LIMIT = 1
  /\ TOTAL_FILE_LIMIT = 1
  /\ readyFolder = <<>>
  /\ logAtStart = {}
  /\ processedLog = {}
  /\ store = {}
  /\ processedFiles = {}
  /\ limited = <<>>
  /\ batchIdx = 0
  /\ embedPc = <<>>
  /\ chunkAt = <<>>
  /\ vectorsOf = <<>>
  /\ epc = "idle"

driverVars == <<limiterVars, cleanVars, embedVars>>

DriversIdle == LimiterIdle /\ CleanIdle /\ EmbedIdle

coreVars == <<chunkerVars, stitchVars, reindexVars, splitVars>>

pipelineVars == <<splitVars, driverVars>>

PipelineIdle == SplitIdle /\ DriversIdle

vars == <<chunkerVars, stitchVars, reindexVars, pipelineVars>>

StitchIdle ==
  /\ fileNames = <<>>
  /\ unreadable = {}
  /\ groups = <<>>
  /\ gi = 0
  /\ stitchLog = <<>>
  /\ stitchedFolder = <<>>
  /\ stitchMetadata = <<>>
  /\ metadataFile = "absent"
  /\ spc = "idle"

ReindexIdle ==
  /\ jsonFileNames = <<>>
  /\ damaged = {}
  /\ damage = "none"
  /\ variant = 1
  /\ jsonGroups = <<>>
  /\ ri = 0
  /\ reindexLog = <<>>
  /\ cleanStitched = <<>>
  /\ reindexMetadata = <<>>
  /\ reindexMetadataFile = "absent"
  /\ rpc = "idle"

(* Inputs of the chunker: short texts over the alphabet (whitespace runs,  *)
(* marker literals inside the text), chunked with small chunk sizes, and   *)
(* texts of distinct words t1..tk, chunked with every chunk size.          *)
SmallTexts == SeqsUpTo(Alphabet, MaxLen)

Word(k) == "t" \o ToString(k)

WordText(k) == Join([j \in 1..k |-> <<Word(j)>>])

WordTexts == {WordText(k) : k \in 0..MaxWords}

Init ==
  /\ \/ /\ text \in SmallTexts
        /\ chunkSize \in 1..MaxSmallChunkSize
        /\ overlap \in 0..MaxSmallChunkSize
     \/ /\ text \in WordTexts
        /\ chunkSize \in 1..MaxChunkSize
        /\ overlap \in 0..MaxOverlap
  /\ tokens = Tokenize(text)
  /\ start = 0
  /\ chunks = <<>>
  /\ windows = <<>>
  /\ pc = "loop"
  /\ wi = 0
  /\ logged = NoLine
  /\ StitchIdle
  /\ ReindexIdle
  /\ PipelineIdle

(* One iteration of `while (start < tokens.length)`. *)
LoopIter ==
  /\ pc = "loop"
  /\ start < Len(tokens)
  /\ Len(chunks) < MaxChunks
  /\ LET end == WindowEnd(start, chunkSize, Len(tokens))
         currentTokens == Slice(tokens, start, end)
     IN /\ chunks' = Append(chunks, MakeChunk(start, currentTokens, overlap))
        /\ windows' = Append(windows, [start |-> start, end |-> end])
        /\ IF end = Len(tokens)
           THEN pc' = "return" /\ start' = start
           ELSE pc' = "loop" /\ start' = NextStart(end, overlap)
  /\ UNCHANGED <<text, chunkSize, overlap, tokens, wi, logged, stitchVars, reindexVars,
                 pipelineVars>>

(* The loop condition fails: fall through to `return chunks`. *)
LoopExit ==
  /\ pc = "loop"
  /\ start >= Len(tokens)
  /\ pc' = "return"
  /\ UNCHANGED <<text, chunkSize, overlap, tokens, start, chunks, windows,
                 wi, logged, stitchVars, reindexVars,
                 pipelineVars>>

(* The driver's loop over the returned chunks: chunk wi+1 is written and   *)
(* the driver logs its number and token count.                             *)
WriteChunk ==
  /\ pc = "return"
  /\ wi < Len(chunks)
  /\ wi' = wi + 1
  /\ logged' = [kind |-> "written", chunkNumber |-> wi + 1,
                tokenCount |-> countTokens(chunks[wi + 1])]
  /\ UNCHANGED <<text, chunkSize, overlap, tokens, start, chunks, windows, pc,
                 stitchVars, reindexVars,
                 pipelineVars>>

(* fs.writeFile rejects: the error is logged and the loop goes on. *)
WriteChunkFail ==
  /\ pc = "return"
  /\ wi < Len(chunks)
  /\ wi' = wi + 1
  /\ logged' = [kind |-> "error", chunkNumber |-> wi + 1, tokenCount |-> 0]
  /\ UNCHANGED <<text, chunkSize, overlap, tokens, start, chunks, windows, pc,
                 stitchVars, reindexVars,
                 pipelineVars>>

Next == LoopIter \/ LoopExit \/ WriteChunk \/ WriteChunkFail

Spec == Init /\ [][Next]_vars

(* ======================= properties of the chunker ===================== *)
ValidParams == chunkSize > 0 /\ 0 <= overlap /\ overlap < chunkSize

IsMarker(u) == u \in {OVERLAP_START, OVERLAP_END}

HasMarker(t) == \E k \in 1..Len(t) : IsMarker(t[k])

RECURSIVE FirstIndex(_, _, _)
FirstIndex(t, u, from) ==
  IF from > Len(t) THEN 0
  ELSE IF t[from] = u THEN from ELSE FirstIndex(t, u, from + 1)

Count(t, u) == Cardinality({k \in 1..Len(t) : t[k] = u})

(* The consumer's rule: drop everything from the first <OVERLAP_START>     *)
(* through the first <OVERLAP_END> after it, both included.                *)
StripOverlap(c) ==
  LET s == FirstIndex(c, OVERLAP_START, 1)
      e == IF s = 0 THEN 0 ELSE FirstIndex(c, OVERLAP_END, s + 1)
  IN IF s = 0 \/ e = 0 THEN c
     ELSE SubSeq(c, 1, s - 1) \o SubSeq(c, e + 1, Len(c))

RECURSIVE Reassemble(_, _)
Reassemble(cs, k) ==
  IF k > Len(cs) THEN <<>>
  ELSE (IF k = 1 THEN Tokenize(cs[k]) ELSE Tokenize(StripOverlap(cs[k])))
         \o Reassemble(cs, k + 1)

Returned == pc = "return"

(* C1 (as stated): for every text and valid parameters, chunk 1 followed   *)
(* by the later chunks with their overlap span removed is the token        *)
(* sequence of the text.                                                   *)
C1_Original ==
  (Returned /\ ValidParams) => Reassemble(chunks, 1) = Tokenize(text)

(* C1 (amended): the same, for every text that contains no marker literal. *)
C1_Reconstruct ==
  (Returned /\ ValidParams /\ ~HasMarker(text))
    => Reassemble(chunks, 1) = Tokenize(text)

C1_Witness ==
  /\ Returned /\ ValidParams /\ ~HasMarker(text)
  /\ Len(chunks) >= 3 /\ overlap >= 2
  /\ Reassemble(chunks, 1) = Tokenize(text)

(* C2: with chunkSize <= overlap the chunker emits no chunk and never      *)
(* runs an iteration of its window loop.                                   *)
C2_Rejected ==
  (chunkSize <= overlap) => (chunks = <<>> /\ windows = <<>>)

(* C3: with valid parameters every iteration that stays in the loop moves  *)
(* start strictly forward (and keeps it below the token count), the loop   *)
(* is left in the iteration whose window end is the token count, and no    *)
(* emitted chunk is empty.                                                 *)
C3_Terminates ==
  [][(pc = "loop" /\ ValidParams) =>
       /\ (pc' = "loop" => (start' > start /\ start' < Len(tokens)))
       /\ (pc' = "return" =>
             \/ (Len(tokens) = 0 /\ chunks' = <<>>)
             \/ (/\ Len(windows') = Len(windows) + 1
                 /\ windows'[Len(windows')].end = Len(tokens)
                 /\ \A k \in 1..Len(windows) : windows[k].end < Len(tokens)))
       /\ Len(chunks') <= Len(tokens)
       /\ \A k \in 1..Len(chunks') : chunks'[k] # <<>>]_vars

C3_Witness ==
  Returned /\ ValidParams /\ Len(windows) >= 3 /\ overlap >= 1

(* C4: consecutive windows share exactly `overlap` token positions: the    *)
(* last `overlap` of window i, which are the first `overlap` of window     *)
(* i+1.                                                                    *)
Positions(w) == (w.start + 1)..(w.end)

C4_ExactOverlap ==
  ValidParams =>
    \A i \in 1..(Len(windows) - 1) :
      LET a == windows[i]
          b == windows[i + 1]
      IN /\ b.start = a.end - overlap
         /\ Positions(a) \cap Positions(b) = (a.end - overlap + 1)..(a.end)
         /\ Cardinality(Positions(a) \cap Positions(b)) = overlap
         /\ SubSeq(tokens, b.start + 1, b.start + overlap)
              = SubSeq(tokens, a.end - overlap + 1, a.end)
         /\ Tokenize(chunks[i + 1])
              = <<<<OVERLAP_START>>>>
                  \o SubSeq(tokens, a.end - overlap + 1, a.end)
                  \o <<<<OVERLAP_END>>>>
                  \o SubSeq(tokens, a.end + 1, b.end)

C4_Witness ==
  ValidParams /\ Len(windows) >= 3 /\ overlap >= 2

(* C5: for a text without marker literals and valid parameters, the first  *)
(* chunk has no marker and every later chunk has exactly one span, opening *)
(* the chunk, with <OVERLAP_START> before <OVERLAP_END>.                   *)
C5_OneSpanAtStart ==
  (ValidParams /\ ~HasMarker(text)) =>
    \A k \in 1..Len(chunks) :
      IF k = 1 THEN ~HasMarker(chunks[k])
      ELSE /\ chunks[k][1] = OVERLAP_START
           /\ Count(chunks[k], OVERLAP_START) = 1
           /\ Count(chunks[k], OVERLAP_END) = 1
           /\ FirstIndex(chunks[k], OVERLAP_END, 1) > 1

C5_Witness ==
  /\ Returned /\ ValidParams /\ ~HasMarker(text) /\ Len(chunks) >= 3
  /\ Len(Tokenize(chunks[Len(chunks)])) = overlap + 3

(* The worked example: 25 words, chunkSize 10, overlap 3. *)
Words(a, b) == Join([j \in 1..(b - a + 1) |-> <<Word(a + j - 1)>>])

Example ==
  Returned /\ chunkSize = 10 /\ overlap = 3 /\ text = Words(1, 25)

(* C6: the example yields four chunks over the windows 1-10, 8-17, 15-24   *)
(* and 22-25; chunk 1 is unmarked, chunks 2 and 3 carry 8-10 and 15-17     *)
(* inside the markers and 11-17 and 18-24 after them.                      *)
C6_Example ==
  Example =>
    /\ Len(chunks) = 4
    /\ windows = <<[start |-> 0, end |-> 10], [start |-> 7, end |-> 17],
                   [start |-> 14, end |-> 24], [start |-> 21, end |-> 25]>>
    /\ chunks[1] = Words(1, 10)
    /\ chunks[2] = <<OVERLAP_START, SP>> \o Words(8, 10)
                     \o <<SP, OVERLAP_END, SP>> \o Words(11, 17)
    /\ chunks[3] = <<OVERLAP_START, SP>> \o Words(15, 17)
                     \o <<SP, OVERLAP_END, SP>> \o Words(18, 24)

C6_Witness == Example /\ Len(chunks) = 4

(* C7 (as stated): the final chunk of the example is the plain words       *)
(* 22-25, without markers.                                                 *)
C7_Original ==
  Example => chunks[Len(chunks)] = Words(22, 25)

(* C7 (amended): the final chunk of the example covers words 22-25 and     *)
(* carries words 22-24 inside the markers and word 25 after them.          *)
C7_FinalChunk ==
  Example =>
    /\ windows[Len(windows)] = [start |-> 21, end |-> 25]
    /\ chunks[Len(chunks)] = <<OVERLAP_START, SP>> \o Words(22, 24)
                               \o <<SP, OVERLAP_END, SP>> \o Words(25, 25)

C7_Witness == Example /\ HasMarker(chunks[Len(chunks)])

(* C8: a text without tokens yields no chunk; a text of 1..chunkSize       *)
(* tokens yields one chunk, its tokens joined by single spaces.            *)
C8_Boundary ==
  Returned =>
    /\ (Len(Tokenize(text)) = 0 => chunks = <<>>)
    /\ (Len(Tokenize(text)) \in 1..chunkSize
          => chunks = <<Join(Tokenize(text))>>)

C8_Witness ==
  /\ Returned /\ Len(tokens) >= 2 /\ Len(tokens) <= chunkSize
  /\ Len(tokens) > overlap /\ Len(chunks) = 1 /\ Len(text) > Len(chunks[1])

(* C9: with valid parameters the token count the driver reports for a      *)
(* written chunk never exceeds chunkSize.                                  *)
C9_CountWithinSize ==
  (ValidParams /\ logged.kind = "written") => logged.tokenCount <= chunkSize

(* ============================ the stitcher ============================= *)
(* A file name is a sequence of units: "-", ".", one decimal digit, or an  *)
(* indivisible run of letters.                                             *)
Digit == {"0", "1", "2"}

DigitValue(c) == IF c = "0" THEN 0 ELSE IF c = "1" THEN 1 ELSE 2

ParseInt_FirstDigit(ds) == IF ds = <<>> THEN 0 ELSE DigitValue(ds[1])

(* parseInt(match[2], 10) *)
RECURSIVE ParseInt(_)
ParseInt(ds) ==
  IF ds = <<>> THEN 0
  ELSE 10 * ParseInt(SubSeq(ds, 1, Len(ds) - 1)) + DigitValue(ds[Len(ds)])

RECURSIVE LastIndex(_, _, _)
LastIndex(t, u, from) ==
  IF from < 1 THEN 0
  ELSE IF t[from] = u THEN from ELSE LastIndex(t, u, from - 1)

MatchRegex_FirstDash(f, ext) ==
  LET n == Len(f)
      j == FirstIndex(f, "-", 1)
  IN IF /\ n >= 4
        /\ f[n] = ext
        /\ f[n - 1] = "."
        /\ j > 0
        /\ j < n - 2
     THEN [matched |-> TRUE, baseName |-> SubSeq(f, 1, j - 1),
           chunk |-> ParseInt(SelectSeq(SubSeq(f, j + 1, n - 2),
                                        LAMBDA c : c \in Digit))]
     ELSE [matched |-> FALSE, baseName |-> <<>>, chunk |-> 0]

(* file.match(regex) for <anything>-<digits>.<ext>: the greedy prefix ends *)
(* at the last dash, and what follows it must be digits and the extension. *)
MatchRegex(f, ext) ==
  LET n == Len(f)
      j == IF n >= 2 THEN LastIndex(f, "-", n - 2) ELSE 0
  IN IF /\ n >= 4
        /\ f[n] = ext
        /\ f[n - 1] = "."
        /\ j > 0
        /\ j < n - 2
        /\ \A k \in (j + 1)..(n - 2) : f[k] \in Digit
     THEN [matched |-> TRUE, baseName |-> SubSeq(f, 1, j - 1),
           chunk |-> ParseInt(SubSeq(f, j + 1, n - 2))]
     ELSE [matched |-> FALSE, baseName |-> <<>>, chunk |-> 0]

(* groups.get(baseName).push(info), creating the entry on first use; the   *)
(* Map keeps its keys in insertion order.                                  *)
AddToGroup(gs, base, info) ==
  IF \E k \in 1..Len(gs) : gs[k].baseName = base
  THEN [k \in 1..Len(gs) |->
          IF gs[k].baseName = base
          THEN [gs[k] EXCEPT !.files = Append(@, info)]
          ELSE gs[k]]
  ELSE Append(gs, [baseName |-> base, files |-> <<info>>])

(* The grouping loop over the directory listing. *)
RECURSIVE GroupFiles(_, _, _)
GroupFiles(names, ext, gs) ==
  IF names = <<>> THEN gs
  ELSE LET m == MatchRegex(Head(names), ext)
       IN GroupFiles(Tail(names), ext,
            IF m.matched
            THEN AddToGroup(gs, m.baseName,
                            [fileName |-> Head(names), chunk |-> m.chunk])
            ELSE gs)

(* files.sort((a, b) => a.chunk - b.chunk): a stable sort. *)
RECURSIVE InsertByChunk(_, _)
InsertByChunk(sorted, x) ==
  IF sorted = <<>> THEN <<x>>
  ELSE IF sorted[Len(sorted)].chunk - x.chunk > 0
       THEN Append(InsertByChunk(SubSeq(sorted, 1, Len(sorted) - 1), x),
                   sorted[Len(sorted)])
       ELSE Append(sorted, x)

SortByChunk_Unsorted(files) == files

RECURSIVE SortByChunk(_)
SortByChunk(files) ==
  IF files = <<>> THEN <<>>
  ELSE InsertByChunk(SortByChunk(SubSeq(files, 1, Len(files) - 1)),
                     files[Len(files)])

(* What readFile returns for a file of the cleansed folder: every file     *)
(* holds a text of its own.                                                *)
ContentOf(f) == <<"text of ">> \o f

RECURSIVE ConcatMembers_StopsAtError(_, _)
ConcatMembers_StopsAtError(files, bad) ==
  IF files = <<>> THEN <<>>
  ELSE IF Head(files).fileName \in bad THEN <<>>
       ELSE ContentOf(Head(files).fileName) \o <<"\n">>
              \o ConcatMembers_StopsAtError(Tail(files), bad)

(* The inner loop: append each readable member followed by a newline. *)
RECURSIVE ConcatMembers(_, _)
ConcatMembers(files, bad) ==
  IF files = <<>> THEN <<>>
  ELSE (IF Head(files).fileName \in bad THEN <<>>
        ELSE ContentOf(Head(files).fileName) \o <<"\n">>)
         \o ConcatMembers(Tail(files), bad)

(* path.parse(baseName).name: the name without its last extension. *)
ParsedName(base) ==
  LET k == LastIndex(base, ".", Len(base))
  IN IF k <= 1 THEN base ELSE SubSeq(base, 1, k - 1)

StitchedText(base, files, bad) ==
  ParsedName(base) \o <<"\n", "\n">> \o ConcatMembers(SortByChunk(files), bad)

ToLowerCase(u) == IF u = "TXT" THEN "txt" ELSE u

OutputFileName_AlwaysAppends(base) == base \o <<".", "txt">>

(* Append ".txt" unless the name already ends in it, case-insensitively. *)
OutputFileName(base) ==
  IF /\ Len(base) >= 2
     /\ base[Len(base) - 1] = "."
     /\ ToLowerCase(base[Len(base)]) = "txt"
  THEN base
  ELSE base \o <<".", "txt">>

(* String.prototype.length of a text given as units. *)
RECURSIVE Length(_)
Length(t) == IF t = <<>> THEN 0 ELSE Len(Head(t)) + Length(Tail(t))

MetadataEntry_Units(stitchedText) == [length |-> Len(stitchedText)]

(* { length: stitchedText.length } *)
MetadataEntry(stitchedText) == [length |-> Length(stitchedText)]

(* obj[key] = value on an object kept as a sequence of entries. *)
Put(obj, key, value) ==
  IF \E k \in 1..Len(obj) : obj[k].key = key
  THEN [k \in 1..Len(obj) |->
          IF obj[k].key = key THEN [key |-> key, value |-> value] ELSE obj[k]]
  ELSE Append(obj, [key |-> key, value |-> value])

(* The names a cleansed folder may hold. *)
ChunkFileName(base, digits) == base \o <<"-">> \o digits \o <<".", "txt">>

ChunkFileNames ==
  {ChunkFileName(<<"doc">>, d) :
     d \in {<<"1">>, <<"2">>, <<"1", "0">>, <<"0", "1">>}}
  \cup {ChunkFileName(<<"doc", ".", "pdf">>, <<"1">>)}
  \cup {ChunkFileName(<<"doc", ".", "txt">>, <<"1">>)}
  \cup {ChunkFileName(<<"doc", ".", "TXT">>, <<"1">>)}
  \cup {ChunkFileName(<<"doc", "-", "1">>, <<"2">>)}

OtherFileNames == {<<"doc", ".", "txt">>}

FileNames == ChunkFileNames \cup OtherFileNames

(* Folders come in two families: one document whose chunk indices vary     *)
(* (10 against 2, a leading zero), and several documents whose base names  *)
(* vary (an extension, an upper-case extension, a dash inside the name).   *)
OrderingNames ==
  {ChunkFileName(<<"doc">>, d) :
     d \in {<<"1">>, <<"2">>, <<"1", "0">>, <<"0", "1">>}}
  \cup OtherFileNames

NamingNames ==
  (FileNames \ OrderingNames)
  \cup {ChunkFileName(<<"doc">>, <<"1">>), ChunkFileName(<<"doc">>, <<"2">>)}
  \cup OtherFileNames

Range(q) == {q[k] : k \in 1..Len(q)}

ListingsOver(S, max) ==
  UNION {{q \in [1..n -> S] : \A a, b \in 1..n : a # b => q[a] # q[b]} :
           n \in 0..max}

Listings ==
  ListingsOver(OrderingNames, MaxFiles) \cup ListingsOver(NamingNames, MaxDocFiles)

ChunkerIdle ==
  /\ text = <<>>
  /\ chunkSize = 1
  /\ overlap = 0
  /\ tokens = <<>>
  /\ start = 0
  /\ chunks = <<>>
  /\ windows = <<>>
  /\ pc = "idle"
  /\ wi = 0
  /\ logged = NoLine

InitStitch ==
  /\ ChunkerIdle
  /\ ReindexIdle
  /\ PipelineIdle
  /\ fileNames \in Listings
  /\ unreadable \in {u \in SUBSET Range(fileNames) :
                       Cardinality(u) <= MaxReadErrors}
  /\ groups = <<>>
  /\ gi = 0
  /\ stitchLog = <<>>
  /\ stitchedFolder = <<>>
  /\ stitchMetadata = <<>>
  /\ metadataFile = "absent"
  /\ spc = "readdir"

(* readdir succeeds; the whole grouping loop runs without suspension. *)
ReadDirAndGroup ==
  /\ spc = "readdir"
  /\ groups' = GroupFiles(fileNames, "txt", <<>>)
  /\ spc' = "stitch"
  /\ UNCHANGED <<chunkerVars, reindexVars, pipelineVars,
                 fileNames, unreadable, gi, stitchLog,
                 stitchedFolder, stitchMetadata, metadataFile>>

(* readdir rejects: the error is logged and main returns. *)
ReadDirFail ==
  /\ spc = "readdir"
  /\ spc' = "done"
  /\ UNCHANGED <<chunkerVars, reindexVars, pipelineVars,
                 fileNames, unreadable, groups, gi, stitchLog,
                 stitchedFolder, stitchMetadata, metadataFile>>

(* One iteration of the loop over the groups: sort, read, stitch, write,   *)
(* record the length.  The write of the output file succeeds or rejects.   *)
StitchGroup(writeOk) ==
  /\ spc = "stitch"
  /\ gi < Len(groups)
  /\ LET g == groups[gi + 1]
         stitchedText == StitchedText(g.baseName, g.files, unreadable)
         outputFileName == OutputFileName(g.baseName)
     IN /\ groups' = [groups EXCEPT ![gi + 1].files = SortByChunk(@)]
        /\ stitchLog' = Append(stitchLog,
                               [baseName |-> g.baseName,
                                outputFileName |-> outputFileName,
                                text |-> stitchedText,
                                saved |-> writeOk])
        /\ IF writeOk
           THEN /\ stitchedFolder' = Put(stitchedFolder, outputFileName,
                                         stitchedText)
                /\ stitchMetadata' = Put(stitchMetadata, outputFileName,
                                         MetadataEntry(stitchedText))
           ELSE UNCHANGED <<stitchedFolder, stitchMetadata>>
  /\ gi' = gi + 1
  /\ UNCHANGED <<chunkerVars, reindexVars, pipelineVars,
                 fileNames, unreadable, metadataFile, spc>>

StitchGroupSaved == StitchGroup(TRUE)

StitchGroupWriteFail == StitchGroup(FALSE)

(* After the last group: write stichfile.json. *)
SaveMetadata ==
  /\ spc = "stitch"
  /\ gi = Len(groups)
  /\ metadataFile' = stitchMetadata
  /\ spc' = "done"
  /\ UNCHANGED <<chunkerVars, reindexVars, pipelineVars,
                 fileNames, unreadable, groups, gi, stitchLog,
                 stitchedFolder, stitchMetadata>>

SaveMetadataFail ==
  /\ spc = "stitch"
  /\ gi = Len(groups)
  /\ spc' = "done"
  /\ UNCHANGED <<chunkerVars, reindexVars, pipelineVars,
                 fileNames, unreadable, groups, gi, stitchLog,
                 stitchedFolder, stitchMetadata, metadataFile>>

NextStitch ==
  \/ ReadDirAndGroup
  \/ ReadDirFail
  \/ StitchGroupSaved
  \/ StitchGroupWriteFail
  \/ SaveMetadata
  \/ SaveMetadataFail

SpecStitch == InitStitch /\ [][NextStitch]_vars

(* ============================ the re-indexer =========================== *)
(* The names a clean folder may hold, in the same two families. *)
JsonFileName(base, digits) == base \o <<"-">> \o digits \o <<".", "json">>

JsonOrderingNames ==
  {JsonFileName(<<"doc">>, d) :
     d \in {<<"1">>, <<"2">>, <<"1", "0">>, <<"0", "1">>}}
  \cup {<<"doc", ".", "json">>}

JsonNamingNames ==
  {JsonFileName(<<"doc">>, <<"1">>),
   JsonFileName(<<"doc", ".", "pdf">>, <<"1">>),
   JsonFileName(<<"doc", ".", "txt">>, <<"1">>),
   JsonFileName(<<"doc", "-", "1">>, <<"2">>),
   ChunkFileName(<<"doc">>, <<"1">>)}

JsonListings ==
  ListingsOver(JsonOrderingNames, MaxFiles)
    \cup ListingsOver(JsonNamingNames, MaxDocFiles)

(* The ways a source file yields no chunk list: readFile rejects,          *)
(* JSON.parse throws, or the parsed value has no "chunks" array.           *)
Damages == {"unreadable", "invalid json", "no chunks array"}

RECURSIVE FlatName(_)
FlatName(f) == IF f = <<>> THEN "" ELSE Head(f) \o FlatName(Tail(f))

(* The k-th sub-chunk of a clean file: its chunkNumber is whatever the     *)
(* cleaning step left there, its text is its own, and every second one     *)
(* carries a field the re-indexer does not know.                           *)
SourceChunk(f, n, k, v) ==
  IF k % 2 = 0
  THEN [chunkNumber |-> (k * v + n) % 4,
        cleanedText |-> FlatName(f) \o "#" \o ToString(k),
        summary |-> "s" \o ToString(n)]
  ELSE [chunkNumber |-> (k * v + n) % 4,
        cleanedText |-> FlatName(f) \o "#" \o ToString(k)]

(* jsonData.chunks of an undamaged clean file: lists of zero, one or two   *)
(* sub-chunks, depending on the file and on the variant of the folder.     *)
ChunksOf(f, v) ==
  LET n == MatchRegex(f, "json").chunk
  IN [k \in 1..((n * v + 1) % 3) |-> SourceChunk(f, n, k, v)]

(* The inner loop: mergedChunks.push(...jsonData.chunks) for every member  *)
(* that is read, parsed and holds a chunks array; the others are skipped.  *)
RECURSIVE MergeChunks_StopsAtDamaged(_, _, _, _)
MergeChunks_StopsAtDamaged(files, bad, why, v) ==
  IF files = <<>> THEN <<>>
  ELSE IF Head(files).fileName \in bad THEN <<>>
       ELSE ChunksOf(Head(files).fileName, v)
              \o MergeChunks_StopsAtDamaged(Tail(files), bad, why, v)

RECURSIVE MergeChunks(_, _, _, _)
MergeChunks(files, bad, why, v) ==
  IF files = <<>> THEN <<>>
  ELSE LET f == Head(files).fileName
           rest == MergeChunks(Tail(files), bad, why, v)
       IN IF f \in bad /\ why = "unreadable" THEN rest
          ELSE IF f \in bad /\ why = "invalid json" THEN rest
          ELSE IF f \in bad /\ why = "no chunks array" THEN rest
          ELSE ChunksOf(f, v) \o rest

(* { ...chunk, chunkNumber: n } *)
WithChunkNumber(chunk, n) ==
  [x \in DOMAIN chunk \cup {"chunkNumber"} |->
     IF x = "chunkNumber" THEN n ELSE chunk[x]]

Renumber_ZeroBased(mergedChunks) ==
  [i \in 1..Len(mergedChunks) |-> WithChunkNumber(mergedChunks[i], i - 1)]

Renumber_KnownFieldsOnly(mergedChunks) ==
  [i \in 1..Len(mergedChunks) |->
     [chunkNumber |-> i, cleanedText |-> mergedChunks[i].cleanedText]]

Renumber_Shifts(mergedChunks) ==
  [i \in 1..Len(mergedChunks) |->
     WithChunkNumber(mergedChunks[i], mergedChunks[1].chunkNumber + i)]

(* mergedChunks.map((chunk, index) => ({...chunk, chunkNumber: index+1})): *)
(* position i of the sequence is index i - 1 of the array.                 *)
Renumber(mergedChunks) ==
  [i \in 1..Len(mergedChunks) |-> WithChunkNumber(mergedChunks[i], i)]

(* finalFileName: the base name, with ".txt" appended unless it ends in it *)
FinalFileName(base) ==
  LET lower == ToLowerCase(base)
      n == Len(lower)
  IN IF n >= 2 /\ lower[n - 1] = "." /\ lower[n] = "txt"
     THEN base
     ELSE base \o <<".", "txt">>

(* JSON.stringify(chunk).length: braces, "key":value members, commas. *)
ChunkJsonLength(chunk) ==
  LET MemberLength(x) ==
        Len(x) + 3 + (IF x = "chunkNumber" THEN Len(ToString(chunk[x]))
                      ELSE Len(chunk[x]) + 2)
      RECURSIVE Sum(_)
      Sum(S) == IF S = {} THEN 0
                ELSE LET x == CHOOSE y \in S : TRUE
                     IN MemberLength(x) + Sum(S \ {x})
  IN 2 + Sum(DOMAIN chunk) + (Cardinality(DOMAIN chunk) - 1)

RECURSIVE ChunksJsonLength(_)
ChunksJsonLength(cs) ==
  IF cs = <<>> THEN 0
  ELSE ChunkJsonLength(Head(cs)) + (IF Len(cs) > 1 THEN 1 ELSE 0)
         + ChunksJsonLength(Tail(cs))

(* JSON.stringify(finalJSON).length for finalJSON = { chunks: [...] } *)
JsonLength(finalJSON) == Len("{\"chunks\":[") + ChunksJsonLength(finalJSON.chunks)
                           + Len("]}")

(* JSON.stringify(chunk, null, 2) inside the chunks array: the braces on   *)
(* lines indented by 4, every member on a line of its own indented by 6    *)
(* with ": " after the key, commas between members.                        *)
ChunkPrettyLength(chunk) ==
  LET MemberLength(x) ==
        6 + Len(x) + 2 + 2 + (IF x = "chunkNumber" THEN Len(ToString(chunk[x]))
                              ELSE Len(chunk[x]) + 2) + 1
      RECURSIVE Sum(_)
      Sum(S) == IF S = {} THEN 0
                ELSE LET x == CHOOSE y \in S : TRUE
                     IN MemberLength(x) + Sum(S \ {x})
  IN (4 + 1 + 1) + Sum(DOMAIN chunk) + (Cardinality(DOMAIN chunk) - 1)
       + (4 + 1)

RECURSIVE ChunksPrettyLength(_)
ChunksPrettyLength(cs) ==
  IF cs = <<>> THEN 0
  ELSE ChunkPrettyLength(Head(cs)) + (IF Len(cs) > 1 THEN 1 ELSE 0) + 1
         + ChunksPrettyLength(Tail(cs))

(* JSON.stringify(finalJSON, null, 2).length: an empty array is printed    *)
(* as [], a non-empty one with its elements on lines of their own.         *)
PrettyJsonLength(finalJSON) ==
  Len("{") + 1 + Len("  \"chunks\": [")
    + (IF finalJSON.chunks = <<>> THEN 0
       ELSE 1 + ChunksPrettyLength(finalJSON.chunks) + 2)
    + Len("]") + 1 + Len("}")

(* The character count of a file written by the re-indexer. *)
WrittenLength(written) ==
  IF written.space = 0 THEN JsonLength(written.json)
  ELSE PrettyJsonLength(written.json)


InitReindex ==
  /\ ChunkerIdle
  /\ StitchIdle
  /\ PipelineIdle
  /\ jsonFileNames \in JsonListings
  /\ damaged \in {u \in SUBSET Range(jsonFileNames) :
                    Cardinality(u) <= MaxReadErrors}
  /\ damage \in IF damaged = {} THEN {"none"} ELSE Damages
  /\ variant \in 1..MaxVariant
  /\ jsonGroups = <<>>
  /\ ri = 0
  /\ reindexLog = <<>>
  /\ cleanStitched = <<>>
  /\ reindexMetadata = <<>>
  /\ reindexMetadataFile = "absent"
  /\ rpc = "readdir"

(* readdir succeeds; the whole grouping loop runs without suspension. *)
ReindexReadDirAndGroup ==
  /\ rpc = "readdir"
  /\ jsonGroups' = GroupFiles(jsonFileNames, "json", <<>>)
  /\ rpc' = "merge"
  /\ UNCHANGED <<chunkerVars, stitchVars, pipelineVars, jsonFileNames, damaged, damage,
                 variant, ri, reindexLog, cleanStitched, reindexMetadata,
                 reindexMetadataFile>>

(* readdir rejects: the error is logged and main returns. *)
ReindexReadDirFail ==
  /\ rpc = "readdir"
  /\ rpc' = "done"
  /\ UNCHANGED <<chunkerVars, stitchVars, pipelineVars, jsonFileNames, damaged, damage,
                 variant, jsonGroups, ri, reindexLog, cleanStitched,
                 reindexMetadata, reindexMetadataFile>>

(* One iteration of the loop over the groups: sort, merge, renumber, name, *)
(* write with indentation 2, record the length of the compact form.        *)
MergeGroup(writeOk) ==
  /\ rpc = "merge"
  /\ ri < Len(jsonGroups)
  /\ LET g == jsonGroups[ri + 1]
         files == SortByChunk(g.files)
         mergedChunks == Renumber(MergeChunks(files, damaged, damage, variant))
         finalFileName == FinalFileName(g.baseName)
         finalJSON == [chunks |-> mergedChunks]
     IN /\ jsonGroups' = [jsonGroups EXCEPT ![ri + 1].files = files]
        /\ reindexLog' = Append(reindexLog,
                                [baseName |-> g.baseName,
                                 finalFileName |-> finalFileName,
                                 chunks |-> mergedChunks,
                                 saved |-> writeOk])
        /\ IF writeOk
           THEN /\ cleanStitched' = Put(cleanStitched, finalFileName,
                                        [json |-> finalJSON, space |-> 2])
                /\ reindexMetadata' = Put(reindexMetadata, finalFileName,
                                          [length |-> JsonLength(finalJSON)])
           ELSE UNCHANGED <<cleanStitched, reindexMetadata>>
  /\ ri' = ri + 1
  /\ UNCHANGED <<chunkerVars, stitchVars, pipelineVars, jsonFileNames, damaged, damage,
                 variant, reindexMetadataFile, rpc>>

MergeGroupSaved == MergeGroup(TRUE)

MergeGroupWriteFail == MergeGroup(FALSE)

(* After the last group: write stichfile.json. *)
ReindexSaveMetadata ==
  /\ rpc = "merge"
  /\ ri = Len(jsonGroups)
  /\ reindexMetadataFile' = reindexMetadata
  /\ rpc' = "done"
  /\ UNCHANGED <<chunkerVars, stitchVars, pipelineVars, jsonFileNames, damaged, damage,
                 variant, jsonGroups, ri, reindexLog, cleanStitched,
                 reindexMetadata>>

ReindexSaveMetadataFail ==
  /\ rpc = "merge"
  /\ ri = Len(jsonGroups)
  /\ rpc' = "done"
  /\ UNCHANGED <<chunkerVars, stitchVars, pipelineVars, jsonFileNames, damaged, damage,
                 variant, jsonGroups, ri, reindexLog, cleanStitched,
                 reindexMetadata, reindexMetadataFile>>

NextReindex ==
  \/ ReindexReadDirAndGroup
  \/ ReindexReadDirFail
  \/ MergeGroupSaved
  \/ MergeGroupWriteFail
  \/ ReindexSaveMetadata
  \/ ReindexSaveMetadataFail

SpecReindex == InitReindex /\ [][NextReindex]_vars

(* Either program runs on its folder. *)
InitReassemble == InitStitch \/ InitReindex

NextReassemble == NextStitch \/ NextReindex

SpecReassemble == InitReassemble /\ [][NextReassemble]_vars

(* ====================== the character-mode splitter ==================== *)
CHAR_OVERLAP_START == "=== OVERLAP_START ==="

CHAR_OVERLAP_END == "=== OVERLAP_END ==="

NL == "\n"

(* s.substring(a, b) for 0 <= a <= b: both ends are clamped to the length. *)
Substring(s, a, b) == SubSeq(s, Min(a, Len(s)) + 1, Min(b, Len(s)))

(* Contents of a stitched file: short ones over characters, line breaks    *)
(* and marker literals, and longer ones of distinct characters c1..ck.     *)
CharAlphabet == {"a", NL, CHAR_OVERLAP_START, CHAR_OVERLAP_END}

SmallContents == SeqsUpTo(CharAlphabet, MaxContentLen)

CharText(k) == [j \in 1..k |-> "c" \o ToString(j)]

CharTexts == {CharText(k) : k \in 0..MaxChars}

SplitFileNames == {<<"doc", ".", "txt">>, <<"doc", ".", "pdf", ".", "txt">>}

(* The marked chunk: the start marker and a line break, the first OVERLAP  *)
(* characters, a line break, the end marker and a line break, the rest.    *)
MarkOverlap(chunk, ov) ==
  <<CHAR_OVERLAP_START, NL>> \o Substring(chunk, 0, ov)
    \o <<NL, CHAR_OVERLAP_END, NL>> \o Substring(chunk, ov, Len(chunk))

CharChunk(cont, from, size, ov) ==
  LET chunk == Substring(cont, from, from + size)
  IN IF from > 0 THEN MarkOverlap(chunk, ov) ELSE chunk

Advance_ByChunkSize(from, size, ov) == from + size

(* startIndex += CHUNK_SIZE - OVERLAP *)
Advance(from, size, ov) == from + (size - ov)

InitSplit ==
  /\ ChunkerIdle
  /\ StitchIdle
  /\ ReindexIdle
  /\ DriversIdle
  /\ splitFileName \in SplitFileNames
  /\ splitReadable \in BOOLEAN
  /\ \/ /\ content \in SmallContents
        /\ CHUNK_SIZE \in 1..MaxSmallChunkSize
     \/ /\ content \in CharTexts
        /\ CHUNK_SIZE \in 1..MaxCharChunkSize
  /\ OVERLAP \in 0..(CHUNK_SIZE - 1)
  /\ startIndex = 0
  /\ charChunks = <<>>
  /\ charWindows = <<>>
  /\ si = 0
  /\ splitWritten = NoWrite
  /\ cpc = "read"

(* readFile resolves: the split loop starts at index 0. *)
ReadStitched ==
  /\ cpc = "read"
  /\ splitReadable
  /\ cpc' = "split"
  /\ UNCHANGED <<chunkerVars, stitchVars, reindexVars, driverVars, splitFileName,
                 splitReadable, CHUNK_SIZE, OVERLAP, content, startIndex,
                 charChunks, charWindows, si, splitWritten>>

(* readFile rejects: the error is logged and the file is skipped. *)
ReadStitchedFail ==
  /\ cpc = "read"
  /\ ~splitReadable
  /\ cpc' = "done"
  /\ UNCHANGED <<chunkerVars, stitchVars, reindexVars, driverVars, splitFileName,
                 splitReadable, CHUNK_SIZE, OVERLAP, content, startIndex,
                 charChunks, charWindows, si, splitWritten>>

(* One iteration of `while (startIndex < content.length)`. *)
SplitIter ==
  /\ cpc = "split"
  /\ startIndex < Len(content)
  /\ charChunks' = Append(charChunks,
                          CharChunk(content, startIndex, CHUNK_SIZE, OVERLAP))
  /\ charWindows' = Append(charWindows,
                           [start |-> startIndex,
                            end |-> Min(startIndex + CHUNK_SIZE, Len(content))])
  /\ startIndex' = Advance(startIndex, CHUNK_SIZE, OVERLAP)
  /\ UNCHANGED <<chunkerVars, stitchVars, reindexVars, driverVars, splitFileName,
                 splitReadable, CHUNK_SIZE, OVERLAP, content, si,
                 splitWritten, cpc>>

(* The loop condition fails: go on to save the chunks. *)
SplitExit ==
  /\ cpc = "split"
  /\ startIndex >= Len(content)
  /\ cpc' = "save"
  /\ UNCHANGED <<chunkerVars, stitchVars, reindexVars, driverVars, splitFileName,
                 splitReadable, CHUNK_SIZE, OVERLAP, content, startIndex,
                 charChunks, charWindows, si, splitWritten>>

(* One iteration of the save loop: header, chunk, <name>-<i>.txt. *)
SaveChunk(writeOk) ==
  /\ cpc = "save"
  /\ si < Len(charChunks)
  /\ LET baseNameWithoutExt == ParsedName(splitFileName)
         chunkContent == baseNameWithoutExt \o <<NL, NL>> \o charChunks[si + 1]
         outputFileName == baseNameWithoutExt
                             \o <<"-", ToString(si + 1), ".", "txt">>
     IN splitWritten' = [kind |-> IF writeOk THEN "written" ELSE "error",
                         outputFileName |-> outputFileName,
                         chunkContent |-> chunkContent]
  /\ si' = si + 1
  /\ UNCHANGED <<chunkerVars, stitchVars, reindexVars, driverVars, splitFileName,
                 splitReadable, CHUNK_SIZE, OVERLAP, content, startIndex,
                 charChunks, charWindows, cpc>>

SaveChunkWritten == SaveChunk(TRUE)

SaveChunkFail == SaveChunk(FALSE)

(* The save loop ends: the file is done. *)
SaveExit ==
  /\ cpc = "save"
  /\ si = Len(charChunks)
  /\ cpc' = "done"
  /\ UNCHANGED <<chunkerVars, stitchVars, reindexVars, driverVars, splitFileName,
                 splitReadable, CHUNK_SIZE, OVERLAP, content, startIndex,
                 charChunks, charWindows, si, splitWritten>>

NextSplit ==
  \/ ReadStitched
  \/ ReadStitchedFail
  \/ SplitIter
  \/ SplitExit
  \/ SaveChunkWritten
  \/ SaveChunkFail
  \/ SaveExit

SpecSplit == InitSplit /\ [][NextSplit]_vars

(* ============================ runConcurrent ============================ *)
CoreIdle == ChunkerIdle /\ StitchIdle /\ ReindexIdle /\ SplitIdle

(* What task i resolves with. *)
ResultOf(i) == "result " \o ToString(i)

NextCall_IgnoresLimit(ts, lim, idx, run, st, sts, prom, rc) ==
  IF idx = Len(ts) /\ run = 0
  THEN [index |-> idx, running |-> run, taskState |-> st, starts |-> sts,
        promise |-> IF prom = "pending" THEN "resolved" ELSE prom,
        resolveCalls |-> rc + 1]
  ELSE [index |-> Len(ts), running |-> run + (Len(ts) - idx),
        taskState |-> [i \in 1..Len(ts) |->
                         IF i > idx THEN "started" ELSE st[i]],
        starts |-> [i \in 1..Len(ts) |->
                      IF i > idx THEN sts[i] + 1 ELSE sts[i]],
        promise |-> prom, resolveCalls |-> rc]

NextCall_ResolvesEarly(ts, lim, idx, run, st, sts, prom, rc) ==
  IF idx = Len(ts)
  THEN [index |-> idx, running |-> run, taskState |-> st, starts |-> sts,
        promise |-> IF prom = "pending" THEN "resolved" ELSE prom,
        resolveCalls |-> rc + 1]
  ELSE LET k == Min(Max(lim - run, 0), Len(ts) - idx)
       IN [index |-> idx + k, running |-> run + k,
           taskState |-> [i \in 1..Len(ts) |->
                            IF i > idx /\ i <= idx + k THEN "started"
                            ELSE st[i]],
           starts |-> [i \in 1..Len(ts) |->
                         IF i > idx /\ i <= idx + k THEN sts[i] + 1
                         ELSE sts[i]],
           promise |-> prom, resolveCalls |-> rc]

(* next(): resolve when every task was started and none is running;        *)
(* otherwise start tasks while running < limit and index < tasks.length.   *)
(* Array index j of the code is position j + 1 here, so the tasks started  *)
(* are the positions idx + 1 .. idx + k.                                   *)
NextCall(ts, lim, idx, run, st, sts, prom, rc) ==
  IF idx = Len(ts) /\ run = 0
  THEN [index |-> idx, running |-> run, taskState |-> st, starts |-> sts,
        promise |-> IF prom = "pending" THEN "resolved" ELSE prom,
        resolveCalls |-> rc + 1]
  ELSE LET k == Min(Max(lim - run, 0), Len(ts) - idx)
       IN [index |-> idx + k, running |-> run + k,
           taskState |-> [i \in 1..Len(ts) |->
                            IF i > idx /\ i <= idx + k THEN "started"
                            ELSE st[i]],
           starts |-> [i \in 1..Len(ts) |->
                         IF i > idx /\ i <= idx + k THEN sts[i] + 1
                         ELSE sts[i]],
           promise |-> prom, resolveCalls |-> rc]

(* The closure variables after a call of next(). *)
AfterNext(c) ==
  /\ index' = c.index
  /\ running' = c.running
  /\ taskState' = c.taskState
  /\ starts' = c.starts
  /\ promise' = c.promise
  /\ resolveCalls' = c.resolveCalls

(* runConcurrent(tasks, limit): the executor of the returned promise sets  *)
(* up the closure and calls next() once.                                   *)
Call(ts, lim) ==
  /\ tasks' = ts
  /\ limit' = lim
  /\ results' = [i \in 1..Len(ts) |-> Hole]
  /\ AfterNext(NextCall(ts, lim, 0, 0, [i \in 1..Len(ts) |-> "pending"],
                        [i \in 1..Len(ts) |-> 0], "pending", 0))

(* The .then callback of task i: store the result, release the slot, call  *)
(* next().                                                                 *)
Fulfil(i, result) ==
  /\ taskState[i] = "started"
  /\ results' = [results EXCEPT ![i] = result]
  /\ AfterNext(NextCall(tasks, limit, index, running - 1,
                        [taskState EXCEPT ![i] = "fulfilled"], starts,
                        promise, resolveCalls))
  /\ UNCHANGED <<tasks, limit>>

(* The .catch callback of task i: reject the returned promise. *)
Reject(i) ==
  /\ taskState[i] = "started"
  /\ taskState' = [taskState EXCEPT ![i] = "rejected"]
  /\ promise' = IF promise = "pending" THEN "rejected" ELSE promise
  /\ UNCHANGED <<tasks, limit, index, running, results, starts, resolveCalls>>

(* A caller with tasks of its own: each task's promise fulfils or rejects. *)
TaskLists == SeqsUpTo({"fulfils", "rejects"}, MaxTasks)

InitLimiter ==
  /\ CoreIdle
  /\ CleanIdle
  /\ EmbedIdle
  /\ tasks \in TaskLists
  /\ limit \in 1..MaxLimit
  /\ index = 0
  /\ running = 0
  /\ results = <<>>
  /\ taskState = <<>>
  /\ starts = <<>>
  /\ promise = "none"
  /\ resolveCalls = 0

RunConcurrent ==
  /\ promise = "none"
  /\ Call(tasks, limit)
  /\ UNCHANGED <<coreVars, cleanVars, embedVars>>

TaskFulfils ==
  \E i \in 1..Len(tasks) :
    /\ promise # "none"
    /\ tasks[i] = "fulfils"
    /\ Fulfil(i, ResultOf(i))
    /\ UNCHANGED <<coreVars, cleanVars, embedVars>>

TaskRejects ==
  \E i \in 1..Len(tasks) :
    /\ promise # "none"
    /\ tasks[i] = "rejects"
    /\ Reject(i)
    /\ UNCHANGED <<coreVars, cleanVars, embedVars>>

NextLimiter ==
  \/ RunConcurrent
  \/ TaskFulfils
  \/ TaskRejects

SpecLimiter == InitLimiter /\ [][NextLimiter]_vars

(* Every started task settles: its promise is fulfilled or rejected at     *)
(* some point, and the callback registered on it then runs.                *)
SpecLimiterFair ==
  /\ SpecLimiter
  /\ WF_vars(RunConcurrent)
  /\ WF_vars(TaskFulfils)
  /\ WF_vars(TaskRejects)

(* ========================= the cleaning drivers ======================== *)
OVERWRITE == FALSE

(* LIMIT of the cleansing run (vector.ts) and of the final cleaning run    *)
(* (finetune/main.ts).                                                     *)
LIMIT(st) == IF st = "cleanse" THEN 10000 ELSE 1000

CleanInputNames ==
  {<<"doc", "-", "1", ".", "txt">>, <<"doc", "-", "2", ".", "txt">>,
   <<"doc", "-", "1", ".", "md">>}

(* The cleansing run writes under the input's name; the final cleaning     *)
(* run writes <name without extension>.json.                               *)
OutputNameOf(st, fileName) ==
  IF st = "cleanse" THEN fileName
  ELSE ParsedName(fileName) \o <<".", "json">>

CleanOutputNames ==
  {OutputNameOf(st, f) : st \in {"cleanse", "finetune"}, f \in CleanInputNames}

Absent == [state |-> "absent", from |-> <<>>]

Earlier == [state |-> "earlier run", from |-> <<>>]

Exists(folder, name) == folder[name].state # "absent"

Faults == {"read", "api", "write"}

InitClean ==
  /\ CoreIdle
  /\ EmbedIdle
  /\ tasks = <<>>
  /\ limit \in 1..MaxLimit
  /\ index = 0
  /\ running = 0
  /\ results = <<>>
  /\ taskState = <<>>
  /\ starts = <<>>
  /\ promise = "none"
  /\ resolveCalls = 0
  /\ stage \in {"cleanse", "finetune"}
  /\ inputFiles \in ListingsOver(CleanInputNames, MaxTasks)
  /\ faulty \in {u \in SUBSET Range(inputFiles) : Cardinality(u) <= MaxFaults}
  /\ fault \in IF faulty = {} THEN {"none"} ELSE Faults
  /\ outputFolder \in
       {[name \in CleanOutputNames |-> IF name \in had THEN Earlier ELSE Absent] :
          had \in SUBSET {OutputNameOf(stage, f) : f \in Range(inputFiles)}}
  /\ sentToOpenAI = {}
  /\ filePc = <<>>
  /\ mpc = "readdir"

(* the positions of the calls after next() has run: a task that was just   *)
(* called is at its access check                                           *)
FilePositions(pcs, c) ==
  [i \in 1..Len(c.taskState) |->
     IF c.taskState[i] = "started" /\ pcs[i] = "not called" THEN "access"
     ELSE pcs[i]]

(* main: readdir, the empty-folder return of the final cleaning run, the   *)
(* slice, one task per file, and the call of runConcurrent with the run's  *)
(* CONCURRENCY_LIMIT (the value limit has from the start), which starts    *)
(* the first tasks.                                                        *)
CleanMain ==
  /\ mpc = "readdir"
  /\ IF stage = "finetune" /\ Len(inputFiles) = 0
     THEN /\ mpc' = "done"
          /\ UNCHANGED <<limiterVars, filePc>>
     ELSE LET selected == Slice(inputFiles, 0, LIMIT(stage))
              ts == [i \in 1..Len(selected) |-> "fulfils"]
          IN /\ Call(ts, limit)
             /\ filePc' = FilePositions([i \in 1..Len(ts) |-> "not called"],
                                    NextCall(ts, limit, 0, 0,
                                             [i \in 1..Len(ts) |-> "pending"],
                                             [i \in 1..Len(ts) |-> 0],
                                             "pending", 0))
             /\ mpc' = "await"
  /\ UNCHANGED <<coreVars, embedVars, stage, inputFiles, faulty, fault, outputFolder,
                 sentToOpenAI>>

(* readdir rejects: the error is logged and main returns. *)
CleanReadDirFail ==
  /\ mpc = "readdir"
  /\ mpc' = "done"
  /\ UNCHANGED <<coreVars, embedVars, limiterVars, stage, inputFiles, faulty, fault,
                 outputFolder, sentToOpenAI, filePc>>

Return_RethrowsErrors(i, how) ==
  IF how \in {"read error", "api error", "write error"}
  THEN /\ Reject(i)
       /\ filePc' = [filePc EXCEPT ![i] = how]
  ELSE /\ Fulfil(i, "undefined")
       /\ filePc' = FilePositions([filePc EXCEPT ![i] = how],
                              NextCall(tasks, limit, index, running - 1,
                                       [taskState EXCEPT ![i] = "fulfilled"],
                                       starts, promise, resolveCalls))

(* processFile returns: its promise fulfils, the limiter's callback runs   *)
(* and may call further tasks.                                             *)
Return(i, how) ==
  /\ Fulfil(i, "undefined")
  /\ filePc' = FilePositions([filePc EXCEPT ![i] = how],
                         NextCall(tasks, limit, index, running - 1,
                                  [taskState EXCEPT ![i] = "fulfilled"],
                                  starts, promise, resolveCalls))

(* fs.access resolves: the output exists, the file is skipped. *)
AccessSkips ==
  \E i \in 1..Len(filePc) :
    /\ filePc[i] = "access"
    /\ ~OVERWRITE
    /\ Exists(outputFolder, OutputNameOf(stage, inputFiles[i]))
    /\ Return(i, "skipped")
    /\ UNCHANGED <<coreVars, embedVars, stage, inputFiles, faulty, fault, outputFolder,
                   sentToOpenAI, mpc>>

(* fs.access rejects (or OVERWRITE is set): go on to read the input. *)
AccessProceeds ==
  \E i \in 1..Len(filePc) :
    /\ filePc[i] = "access"
    /\ OVERWRITE \/ ~Exists(outputFolder, OutputNameOf(stage, inputFiles[i]))
    /\ filePc' = [filePc EXCEPT ![i] = "read"]
    /\ UNCHANGED <<coreVars, embedVars, limiterVars, stage, inputFiles, faulty, fault,
                   outputFolder, sentToOpenAI, mpc>>

(* readFile rejects: logged, processFile returns. *)
ReadFails ==
  \E i \in 1..Len(filePc) :
    /\ filePc[i] = "read"
    /\ inputFiles[i] \in faulty /\ fault = "read"
    /\ Return(i, "read error")
    /\ UNCHANGED <<coreVars, embedVars, stage, inputFiles, faulty, fault, outputFolder,
                   sentToOpenAI, mpc>>

(* The content is sent; sendToOpenAI throws: logged, processFile returns. *)
ApiFails ==
  \E i \in 1..Len(filePc) :
    /\ filePc[i] = "read"
    /\ inputFiles[i] \in faulty /\ fault = "api"
    /\ sentToOpenAI' = sentToOpenAI \cup {inputFiles[i]}
    /\ Return(i, "api error")
    /\ UNCHANGED <<coreVars, embedVars, stage, inputFiles, faulty, fault, outputFolder,
                   mpc>>

(* The content is sent and cleaned; writeFile rejects: logged. *)
WriteFails ==
  \E i \in 1..Len(filePc) :
    /\ filePc[i] = "read"
    /\ inputFiles[i] \in faulty /\ fault = "write"
    /\ sentToOpenAI' = sentToOpenAI \cup {inputFiles[i]}
    /\ Return(i, "write error")
    /\ UNCHANGED <<coreVars, embedVars, stage, inputFiles, faulty, fault, outputFolder,
                   mpc>>

(* The content is sent, cleaned and written to the output file. *)
Saves ==
  \E i \in 1..Len(filePc) :
    /\ filePc[i] = "read"
    /\ inputFiles[i] \notin faulty
    /\ sentToOpenAI' = sentToOpenAI \cup {inputFiles[i]}
    /\ outputFolder' =
         [outputFolder EXCEPT ![OutputNameOf(stage, inputFiles[i])] =
            [state |-> "written", from |-> inputFiles[i]]]
    /\ Return(i, "saved")
    /\ UNCHANGED <<coreVars, embedVars, stage, inputFiles, faulty, fault, mpc>>

(* await runConcurrent(...) is over: main returns. *)
CleanMainReturns ==
  /\ mpc = "await"
  /\ promise \in {"resolved", "rejected"}
  /\ mpc' = "done"
  /\ UNCHANGED <<coreVars, embedVars, limiterVars, stage, inputFiles, faulty, fault,
                 outputFolder, sentToOpenAI, filePc>>

NextClean ==
  \/ CleanMain
  \/ CleanReadDirFail
  \/ AccessSkips
  \/ AccessProceeds
  \/ ReadFails
  \/ ApiFails
  \/ WriteFails
  \/ Saves
  \/ CleanMainReturns

SpecClean == InitClean /\ [][NextClean]_vars

(* ========================= the embedding driver ======================== *)
EmbedNames ==
  {<<"doc", ".", "json">>, <<"faq", ".", "json">>, <<"kb", ".", "json">>}

(* fileJSON.chunks of a ready file, by chunkNumber: the first document has *)
(* two chunks, the others one.                                             *)
ReadyChunkNumbers(fileName) ==
  IF fileName = <<"doc", ".", "json">> THEN <<1, 2>> ELSE <<1>>

(* `${baseName}-${chunk.chunkNumber}` *)
VectorId(fileName, n) == ParsedName(fileName) \o <<"-", ToString(n)>>

Vector(fileName, n) == [id |-> VectorId(fileName, n), chunkNumber |-> n]

VectorIdsOf(fileName) ==
  {VectorId(fileName, ReadyChunkNumbers(fileName)[k]) :
     k \in 1..Len(ReadyChunkNumbers(fileName))}

(* A run starts with some processed_files.json left by earlier runs, and   *)
(* with the store holding the vectors of the files named in it.            *)
InitEmbed ==
  /\ CoreIdle
  /\ LimiterIdle
  /\ CleanIdle
  /\ FILE_PROCESS_LIMIT \in 1..MaxBatch
  /\ CONCURRENCY_LIMIT \in 1..MaxEmbedLimit
  /\ TOTAL_FILE_LIMIT \in {MaxReady - 1, MaxReady}
  /\ readyFolder \in ListingsOver(EmbedNames, MaxReady)
  /\ logAtStart \in SUBSET EmbedNames
  /\ processedLog = logAtStart
  /\ store = UNION {VectorIdsOf(f) : f \in logAtStart}
  /\ processedFiles = {}
  /\ limited = <<>>
  /\ batchIdx = 0
  /\ embedPc = <<>>
  /\ chunkAt = <<>>
  /\ vectorsOf = <<>>
  /\ epc = "readdir"

(* limited.slice(i, i + FILE_PROCESS_LIMIT) for the k-th batch, as the set *)
(* of positions in limited.                                                *)
BatchOf(lim, k) ==
  {i \in 1..Len(lim) :
     (k - 1) * FILE_PROCESS_LIMIT < i /\ i <= k * FILE_PROCESS_LIMIT}

NumBatches(lim) == (Len(lim) + FILE_PROCESS_LIMIT - 1) \div FILE_PROCESS_LIMIT

BatchNames(lim, k) == {lim[i] : i \in BatchOf(lim, k)}

Active(pcs) == {i \in 1..Len(pcs) : pcs[i] \in {"read", "embedding"}}

Queued(pcs) == {i \in 1..Len(pcs) : pcs[i] = "queued"}

Settled(pcs) ==
  {i \in 1..Len(pcs) : pcs[i] \in {"read error", "parse error", "returned"}}

(* The limiter made by pLimit(CONCURRENCY_LIMIT): queued calls are run in  *)
(* the order they were made while fewer than CONCURRENCY_LIMIT are active. *)
Dequeue(pcs) ==
  LET free == Max(CONCURRENCY_LIMIT - Cardinality(Active(pcs)), 0)
      q == Queued(pcs)
  IN [i \in 1..Len(pcs) |->
        IF i \in q /\ Cardinality({j \in q : j < i}) < free THEN "read"
        ELSE pcs[i]]

(* batch.map((fileName) => limit(() => processFile(fileName))) *)
StartBatch(k, lim, pcs) ==
  Dequeue([i \in 1..Len(lim) |-> IF i \in BatchOf(lim, k) THEN "queued"
                                 ELSE pcs[i]])

(* main: readdir and the return on an empty ready folder. *)
EmbedMain ==
  /\ epc = "readdir"
  /\ epc' = IF Len(readyFolder) = 0 THEN "done" ELSE "load"
  /\ UNCHANGED <<coreVars, limiterVars, cleanVars, FILE_PROCESS_LIMIT,
                 CONCURRENCY_LIMIT, TOTAL_FILE_LIMIT, readyFolder, logAtStart,
                 processedLog, store, processedFiles, limited, batchIdx,
                 embedPc, chunkAt, vectorsOf>>

(* readdir rejects: main rejects, the error is logged by main().catch. *)
EmbedReadDirFail ==
  /\ epc = "readdir"
  /\ epc' = "fatal"
  /\ UNCHANGED <<coreVars, limiterVars, cleanVars, FILE_PROCESS_LIMIT,
                 CONCURRENCY_LIMIT, TOTAL_FILE_LIMIT, readyFolder, logAtStart,
                 processedLog, store, processedFiles, limited, batchIdx,
                 embedPc, chunkAt, vectorsOf>>

(* main from the Set on: the filter, the slice, the batches, and the first *)
(* batch handed to the limiter.                                            *)
Select(loaded) ==
  LET NotDone(f) == f \notin loaded
      toDo == SelectSeq(readyFolder, NotDone)
      lim == Slice(toDo, 0, TOTAL_FILE_LIMIT)
  IN /\ processedFiles' = loaded
     /\ limited' = lim
     /\ chunkAt' = [i \in 1..Len(lim) |-> 0]
     /\ vectorsOf' = [i \in 1..Len(lim) |-> <<>>]
     /\ IF Len(lim) = 0
        THEN /\ batchIdx' = 0
             /\ embedPc' = <<>>
             /\ epc' = "done"
        ELSE /\ batchIdx' = 1
             /\ embedPc' = StartBatch(1, lim, [i \in 1..Len(lim) |-> "waiting"])
             /\ epc' = "await"

(* loadProcessedFiles reads and parses processed_files.json. *)
LoadProcessedFiles ==
  /\ epc = "load"
  /\ Select(processedLog)
  /\ UNCHANGED <<coreVars, limiterVars, cleanVars, FILE_PROCESS_LIMIT,
                 CONCURRENCY_LIMIT, TOTAL_FILE_LIMIT, readyFolder, logAtStart,
                 processedLog, store>>

(* readFile or JSON.parse throws in loadProcessedFiles: the catch returns  *)
(* an empty Set.                                                           *)
LoadProcessedFilesFail ==
  /\ epc = "load"
  /\ Select({})
  /\ UNCHANGED <<coreVars, limiterVars, cleanVars, FILE_PROCESS_LIMIT,
                 CONCURRENCY_LIMIT, TOTAL_FILE_LIMIT, readyFolder, logAtStart,
                 processedLog, store>>

(* The calls of processFile that have met a read, parse or embedding       *)
(* error so far; a run meets such errors in at most MaxFaults files.       *)
Failing(pcs, at, vs) ==
  {i \in 1..Len(pcs) :
     \/ pcs[i] \in {"read error", "parse error"}
     \/ pcs[i] = "embedding" /\ Len(vs[i]) < at[i] - 1
     \/ pcs[i] = "returned" /\ Len(vs[i]) < Len(ReadyChunkNumbers(limited[i]))}

MayFail(i) ==
  \/ i \in Failing(embedPc, chunkAt, vectorsOf)
  \/ Cardinality(Failing(embedPc, chunkAt, vectorsOf)) < MaxFaults

(* processFile(limited[i]) returns: its limiter slot goes to the next      *)
(* queued call.                                                            *)
Returns(i, how) == embedPc' = Dequeue([embedPc EXCEPT ![i] = how])

(* readFile rejects: logged, return []. *)
EmbedReadFails ==
  \E i \in 1..Len(embedPc) :
    /\ embedPc[i] = "read"
    /\ MayFail(i)
    /\ Returns(i, "read error")
    /\ UNCHANGED <<coreVars, limiterVars, cleanVars, FILE_PROCESS_LIMIT,
                   CONCURRENCY_LIMIT, TOTAL_FILE_LIMIT, readyFolder,
                   logAtStart, processedLog, store, processedFiles, limited,
                   batchIdx, chunkAt, vectorsOf, epc>>

(* JSON.parse throws: logged, return []. *)
EmbedParseFails ==
  \E i \in 1..Len(embedPc) :
    /\ embedPc[i] = "read"
    /\ MayFail(i)
    /\ Returns(i, "parse error")
    /\ UNCHANGED <<coreVars, limiterVars, cleanVars, FILE_PROCESS_LIMIT,
                   CONCURRENCY_LIMIT, TOTAL_FILE_LIMIT, readyFolder,
                   logAtStart, processedLog, store, processedFiles, limited,
                   batchIdx, chunkAt, vectorsOf, epc>>

(* The file is read and parsed; the loop asks for the first chunk's        *)
(* embedding, or ends at once when there is no chunk.                      *)
EmbedParses ==
  \E i \in 1..Len(embedPc) :
    /\ embedPc[i] = "read"
    /\ IF Len(ReadyChunkNumbers(limited[i])) = 0
       THEN /\ Returns(i, "returned")
            /\ UNCHANGED chunkAt
       ELSE /\ embedPc' = [embedPc EXCEPT ![i] = "embedding"]
            /\ chunkAt' = [chunkAt EXCEPT ![i] = 1]
    /\ UNCHANGED <<coreVars, limiterVars, cleanVars, FILE_PROCESS_LIMIT,
                   CONCURRENCY_LIMIT, TOTAL_FILE_LIMIT, readyFolder,
                   logAtStart, processedLog, store, processedFiles, limited,
                   batchIdx, vectorsOf, epc>>

(* The end of one iteration of the chunk loop. *)
NextChunk(i) ==
  IF chunkAt[i] = Len(ReadyChunkNumbers(limited[i]))
  THEN /\ Returns(i, "returned")
       /\ UNCHANGED chunkAt
  ELSE /\ chunkAt' = [chunkAt EXCEPT ![i] = chunkAt[i] + 1]
       /\ UNCHANGED embedPc

(* getEmbedding returns: the chunk's vector is pushed. *)
EmbeddingOk ==
  \E i \in 1..Len(embedPc) :
    /\ embedPc[i] = "embedding"
    /\ vectorsOf' =
         [vectorsOf EXCEPT ![i] =
            Append(vectorsOf[i],
                   Vector(limited[i], ReadyChunkNumbers(limited[i])[chunkAt[i]]))]
    /\ NextChunk(i)
    /\ UNCHANGED <<coreVars, limiterVars, cleanVars, FILE_PROCESS_LIMIT,
                   CONCURRENCY_LIMIT, TOTAL_FILE_LIMIT, readyFolder,
                   logAtStart, processedLog, store, processedFiles, limited,
                   batchIdx, epc>>

(* getEmbedding throws: logged, continue with the next chunk. *)
EmbeddingFails ==
  \E i \in 1..Len(embedPc) :
    /\ embedPc[i] = "embedding"
    /\ MayFail(i)
    /\ NextChunk(i)
    /\ UNCHANGED <<coreVars, limiterVars, cleanVars, FILE_PROCESS_LIMIT,
                   CONCURRENCY_LIMIT, TOTAL_FILE_LIMIT, readyFolder,
                   logAtStart, processedLog, store, processedFiles, limited,
                   batchIdx, vectorsOf, epc>>

(* results.flat() of the batch main is at. *)
RECURSIVE FlatFrom(_, _, _)
FlatFrom(vs, i, last) ==
  IF i > last THEN <<>> ELSE vs[i] \o FlatFrom(vs, i + 1, last)

BatchVectors ==
  FlatFrom(vectorsOf, (batchIdx - 1) * FILE_PROCESS_LIMIT + 1,
           Min(batchIdx * FILE_PROCESS_LIMIT, Len(limited)))

(* batch.forEach((f) => processedFiles.add(f)) *)
MarkBatch_OnlyComplete ==
  processedFiles' =
    processedFiles \cup
      {limited[i] : i \in {j \in BatchOf(limited, batchIdx) :
                             /\ embedPc[j] = "returned"
                             /\ Len(vectorsOf[j]) =
                                  Len(ReadyChunkNumbers(limited[j]))}}

MarkBatch ==
  processedFiles' = processedFiles \cup BatchNames(limited, batchIdx)

(* Promise.all resolves when every call of the batch has returned; with no *)
(* vector the upsert is skipped and the batch is marked at once.           *)
PromiseAll ==
  /\ epc = "await"
  /\ BatchOf(limited, batchIdx) \subseteq Settled(embedPc)
  /\ IF Len(BatchVectors) = 0
     THEN /\ MarkBatch
          /\ epc' = "save"
     ELSE /\ epc' = "upsert"
          /\ UNCHANGED processedFiles
  /\ UNCHANGED <<coreVars, limiterVars, cleanVars, FILE_PROCESS_LIMIT,
                 CONCURRENCY_LIMIT, TOTAL_FILE_LIMIT, readyFolder, logAtStart,
                 processedLog, store, limited, batchIdx, embedPc, chunkAt,
                 vectorsOf>>

(* upsertVectors returns: the store holds the batch's vectors, the batch   *)
(* is marked.                                                              *)
UpsertOk ==
  /\ epc = "upsert"
  /\ store' = store \cup {BatchVectors[k].id : k \in 1..Len(BatchVectors)}
  /\ MarkBatch
  /\ epc' = "save"
  /\ UNCHANGED <<coreVars, limiterVars, cleanVars, FILE_PROCESS_LIMIT,
                 CONCURRENCY_LIMIT, TOTAL_FILE_LIMIT, readyFolder, logAtStart,
                 processedLog, limited, batchIdx, embedPc, chunkAt, vectorsOf>>

(* upsertVectors throws: main rejects, the error is logged by              *)
(* main().catch.                                                           *)
UpsertFails ==
  /\ epc = "upsert"
  /\ epc' = "fatal"
  /\ UNCHANGED <<coreVars, limiterVars, cleanVars, FILE_PROCESS_LIMIT,
                 CONCURRENCY_LIMIT, TOTAL_FILE_LIMIT, readyFolder, logAtStart,
                 processedLog, store, processedFiles, limited, batchIdx,
                 embedPc, chunkAt, vectorsOf>>

(* The for loop over the batches goes on, or main returns. *)
NextBatch ==
  IF batchIdx < NumBatches(limited)
  THEN /\ batchIdx' = batchIdx + 1
       /\ embedPc' = StartBatch(batchIdx + 1, limited, embedPc)
       /\ epc' = "await"
  ELSE /\ epc' = "done"
       /\ UNCHANGED <<batchIdx, embedPc>>

(* saveProcessedFiles writes the Set to processed_files.json. *)
SaveProcessedFiles ==
  /\ epc = "save"
  /\ processedLog' = processedFiles
  /\ NextBatch
  /\ UNCHANGED <<coreVars, limiterVars, cleanVars, FILE_PROCESS_LIMIT,
                 CONCURRENCY_LIMIT, TOTAL_FILE_LIMIT, readyFolder, logAtStart,
                 store, processedFiles, limited, chunkAt, vectorsOf>>

(* writeFile rejects in saveProcessedFiles: logged, main goes on. *)
SaveProcessedFilesFail ==
  /\ epc = "save"
  /\ NextBatch
  /\ UNCHANGED <<coreVars, limiterVars, cleanVars, FILE_PROCESS_LIMIT,
                 CONCURRENCY_LIMIT, TOTAL_FILE_LIMIT, readyFolder, logAtStart,
                 processedLog, store, processedFiles, limited, chunkAt,
                 vectorsOf>>

NextEmbed ==
  \/ EmbedMain
  \/ EmbedReadDirFail
  \/ LoadProcessedFiles
  \/ LoadProcessedFilesFail
  \/ EmbedReadFails
  \/ EmbedParseFails
  \/ EmbedParses
  \/ EmbeddingOk
  \/ EmbeddingFails
  \/ PromiseAll
  \/ UpsertOk
  \/ UpsertFails
  \/ SaveProcessedFiles
  \/ SaveProcessedFilesFail

SpecEmbed == InitEmbed /\ [][NextEmbed]_vars

(* ============================ both drivers ============================= *)
(* A run of a cleaning driver or of the embedding driver. *)
InitDrivers == InitClean \/ InitEmbed

NextDrivers == NextClean \/ NextEmbed

SpecDrivers == InitDrivers /\ [][NextDrivers]_vars

(* ====================== properties of the stitcher ===================== *)
(* One fixed enumeration of the folder's names, and its reverse. *)
RECURSIVE SetToSeq(_)
SetToSeq(S) ==
  IF S = {} THEN <<>>
  ELSE LET x == CHOOSE y \in S : TRUE IN <<x>> \o SetToSeq(S \ {x})

Reverse(q) == [k \in 1..Len(q) |-> q[Len(q) + 1 - k]]

(* The text the stitcher produces for a base name under a given listing. *)
TextUnderListing(listing, base) ==
  LET gs == GroupFiles(listing, "txt", <<>>)
      k == CHOOSE k \in 1..Len(gs) : gs[k].baseName = base
  IN StitchedText(base, gs[k].files, unreadable)

SameUnderEveryListing(entry) ==
  LET q == SetToSeq(Range(fileNames))
  IN /\ entry.text = TextUnderListing(q, entry.baseName)
     /\ entry.text = TextUnderListing(Reverse(q), entry.baseName)

GroupOf(base) == groups[CHOOSE k \in 1..Len(groups) : groups[k].baseName = base]

DistinctIndices(files) ==
  \A a, b \in 1..Len(files) : a # b => files[a].chunk # files[b].chunk

Ascending(files) ==
  \A k \in 1..(Len(files) - 1) : files[k].chunk <= files[k + 1].chunk

(* C10 (as stated): each group is put in ascending numeric index order and *)
(* its stitched text is the same for every order of the directory listing. *)
C10_Original ==
  \A k \in 1..Len(stitchLog) :
    /\ Ascending(GroupOf(stitchLog[k].baseName).files)
    /\ SameUnderEveryListing(stitchLog[k])

(* C10 (amended): the same, for every group whose members have pairwise    *)
(* distinct numeric indices.                                               *)
C10_OrderIndependent ==
  \A k \in 1..Len(stitchLog) :
    /\ Ascending(GroupOf(stitchLog[k].baseName).files)
    /\ (DistinctIndices(GroupOf(stitchLog[k].baseName).files)
          => SameUnderEveryListing(stitchLog[k]))

C10_Witness ==
  \E k \in 1..Len(stitchLog) :
    LET fs == GroupOf(stitchLog[k].baseName).files
    IN /\ Len(fs) = 3
       /\ DistinctIndices(fs)
       /\ fs[3].chunk = 10
       /\ unreadable = {}
       /\ MatchRegex(fileNames[1], "txt").chunk = 10
       /\ MatchRegex(fileNames[2], "txt").chunk = 1
       /\ SameUnderEveryListing(stitchLog[k])

(* ---- the stitched text ---- *)
IsReadable(info) == info.fileName \notin unreadable

ReadableMembers(base) == SelectSeq(GroupOf(base).files, IsReadable)

(* texts joined by one newline, nothing after the last *)
RECURSIVE JoinLines(_)
JoinLines(files) ==
  IF files = <<>> THEN <<>>
  ELSE IF Len(files) = 1 THEN ContentOf(files[1].fileName)
       ELSE ContentOf(files[1].fileName) \o <<"\n">> \o JoinLines(Tail(files))

(* every text followed by a newline *)
RECURSIVE EachLine(_)
EachLine(files) ==
  IF files = <<>> THEN <<>>
  ELSE ContentOf(files[1].fileName) \o <<"\n">> \o EachLine(Tail(files))

(* C11: the stitched text of every group is the header line, a blank line, *)
(* and the chunk texts in ascending index order, separated by one newline, *)
(* with nothing after the last chunk text.                                 *)
C11_ExactText ==
  \A k \in 1..Len(stitchLog) :
    stitchLog[k].text =
      ParsedName(stitchLog[k].baseName) \o <<"\n", "\n">>
        \o JoinLines(ReadableMembers(stitchLog[k].baseName))

(* ---- the metadata ---- *)
Keys(obj) == {obj[k].key : k \in 1..Len(obj)}

ValueOf(obj, key) == obj[CHOOSE k \in 1..Len(obj) : obj[k].key = key].value

SavedAs(name) ==
  {k \in 1..Len(stitchLog) :
     stitchLog[k].outputFileName = name /\ stitchLog[k].saved}

LastOf(S) == CHOOSE k \in S : \A j \in S : j <= k

(* C12: the metadata has an entry for a name exactly when a write of that  *)
(* name succeeded in this run, and the recorded length is the character    *)
(* count of the text that write left in the file.                          *)
C12_MetadataMatchesWrites ==
  /\ \A k \in 1..Len(stitchLog) :
       (stitchLog[k].outputFileName \in Keys(stitchMetadata))
         <=> (SavedAs(stitchLog[k].outputFileName) # {})
  /\ \A name \in Keys(stitchMetadata) :
       /\ SavedAs(name) # {}
       /\ name \in Keys(stitchedFolder)
       /\ ValueOf(stitchedFolder, name) = stitchLog[LastOf(SavedAs(name))].text
       /\ ValueOf(stitchMetadata, name).length
            = Length(ValueOf(stitchedFolder, name))
  /\ Keys(stitchedFolder) = Keys(stitchMetadata)

C12_Witness ==
  /\ spc = "done"
  /\ Len(stitchLog) = 2
  /\ stitchLog[1].saved /\ ~stitchLog[2].saved
  /\ stitchLog[1].outputFileName # stitchLog[2].outputFileName
  /\ Len(stitchMetadata) = 1
  /\ ValueOf(stitchMetadata, stitchLog[1].outputFileName).length
       > Len(stitchLog[1].text)

AllGroupsSaved ==
  /\ spc \in {"stitch", "done"}
  /\ gi = Len(groups)
  /\ Len(stitchLog) = Len(groups)
  /\ \A k \in 1..Len(stitchLog) : stitchLog[k].saved

(* C13: when every write succeeds, distinct groups are written to distinct *)
(* output names: as many metadata entries and output files as groups.      *)
C13_OnePerGroup ==
  AllGroupsSaved =>
    /\ Len(stitchMetadata) = Len(groups)
    /\ Len(stitchedFolder) = Len(groups)
    /\ \A a, b \in 1..Len(stitchLog) :
         a # b => stitchLog[a].outputFileName # stitchLog[b].outputFileName

(* ---- the output name ---- *)
EndsInTxt(name) ==
  /\ Len(name) >= 2
  /\ name[Len(name) - 1] = "."
  /\ name[Len(name)] \in {"txt", "TXT"}

EndsInTxtTxt(name) ==
  EndsInTxt(name) /\ EndsInTxt(SubSeq(name, 1, Len(name) - 2))

NamedByRule(b, o) ==
  /\ EndsInTxt(b) => o = b
  /\ ~EndsInTxt(b) => (o = b \o <<".", "txt">> /\ ~EndsInTxtTxt(o))

C15_SkipsOnlyUnreadable ==
  /\ gi = Len(stitchLog)
  /\ \A k \in 1..Len(stitchLog) :
       LET b == stitchLog[k].baseName
           fs == GroupOf(b).files
       IN /\ stitchLog[k].baseName = groups[k].baseName
          /\ Ascending(ReadableMembers(b))
          /\ stitchLog[k].text =
               ParsedName(b) \o <<"\n", "\n">> \o EachLine(ReadableMembers(b))
          /\ (\A j \in 1..Len(fs) : IsReadable(fs[j]))
               => stitchLog[k].text = StitchedText(b, fs, {})
          /\ stitchLog[k].saved
               => stitchLog[k].outputFileName \in Keys(stitchedFolder)

C15_Witness ==
  /\ Len(stitchLog) = 1
  /\ stitchLog[1].saved
  /\ Len(groups[1].files) = 3
  /\ DistinctIndices(groups[1].files)
  /\ unreadable = {groups[1].files[2].fileName}
  /\ Len(ReadableMembers(groups[1].baseName)) = 2

(* ---- grouping ---- *)
(* The naming convention, stated on the name itself: some dash is followed *)
(* by one or more digits, a dot and the extension.                         *)
DashesBeforeIndex(f, ext) ==
  {j \in 1..Len(f) :
     /\ f[j] = "-"
     /\ Len(f) >= j + 3
     /\ f[Len(f)] = ext
     /\ f[Len(f) - 1] = "."
     /\ \A k \in (j + 1)..(Len(f) - 2) : f[k] \in Digit}

FollowsConvention(f, ext) == DashesBeforeIndex(f, ext) # {}

Decimal(ds) ==
  IF Len(ds) = 1 THEN DigitValue(ds[1])
  ELSE 10 * DigitValue(ds[1]) + DigitValue(ds[2])

Placements(gs, f) ==
  {<<k, j>> \in (1..Len(gs)) \X (1..MaxFiles + 1) :
     j <= Len(gs[k].files) /\ gs[k].files[j].fileName = f}

GroupingTotal(names, gs, ext) ==
  /\ \A a, b \in 1..Len(gs) : a # b => gs[a].baseName # gs[b].baseName
  /\ \A k \in 1..Len(gs) :
       \A j \in 1..Len(gs[k].files) : gs[k].files[j].fileName \in Range(names)
  /\ \A i \in 1..Len(names) :
       LET f == names[i]
           ps == Placements(gs, f)
       IN IF FollowsConvention(f, ext)
          THEN /\ Cardinality(ps) = 1
               /\ \A p \in ps :
                    LET d == CHOOSE j \in DashesBeforeIndex(f, ext) : TRUE
                    IN /\ DashesBeforeIndex(f, ext) = {d}
                       /\ gs[p[1]].baseName = SubSeq(f, 1, d - 1)
                       /\ gs[p[1]].files[p[2]].chunk
                            = Decimal(SubSeq(f, d + 1, Len(f) - 2))
          ELSE ps = {}

(* C16: after grouping, in the stitcher (.txt) and in the re-indexer       *)
(* (.json), every name that follows the convention is in exactly one       *)
(* group, the one keyed by what precedes its final dash, with its numeric  *)
(* index; every other name is in no group; and the run goes on to process  *)
(* the groups.                                                             *)
C16_GroupingTotal ==
  /\ (spc = "stitch") => GroupingTotal(fileNames, groups, "txt")
  /\ (rpc = "merge") => GroupingTotal(jsonFileNames, jsonGroups, "json")
  /\ [spc |-> spc, rpc |-> rpc] \in
       {[spc |-> "idle", rpc |-> "readdir"], [spc |-> "idle", rpc |-> "merge"],
        [spc |-> "idle", rpc |-> "done"], [spc |-> "readdir", rpc |-> "idle"],
        [spc |-> "stitch", rpc |-> "idle"], [spc |-> "done", rpc |-> "idle"]}

C16_Witness ==
  /\ spc = "stitch"
  /\ Len(fileNames) = 2
  /\ fileNames[1] = <<"doc", ".", "txt">>
  /\ fileNames[2] = <<"doc", "-", "1", "-", "2", ".", "txt">>
  /\ Len(groups) = 1
  /\ groups[1].baseName = <<"doc", "-", "1">>
  /\ groups[1].files[1].chunk = 2

(* C17 (as stated): within every group of the stitcher and of the         *)
(* re-indexer the numeric indices of the members are pairwise distinct.    *)
C17_Original ==
  /\ \A k \in 1..Len(groups) : DistinctIndices(groups[k].files)
  /\ \A k \in 1..Len(jsonGroups) : DistinctIndices(jsonGroups[k].files)

(* the index digits of a name are written without a leading zero *)
CanonicalIndex(f, ext) ==
  LET d == CHOOSE j \in DashesBeforeIndex(f, ext) : TRUE
  IN f[d + 1] # "0" \/ Len(f) = d + 3

DistinctWhenCanonical(gs, ext) ==
  \A k \in 1..Len(gs) :
    (\A j \in 1..Len(gs[k].files) :
       CanonicalIndex(gs[k].files[j].fileName, ext))
      => DistinctIndices(gs[k].files)

(* C17 (amended): within every group, of the stitcher or the re-indexer,   *)
(* whose members' names write the index without leading zeros, the numeric *)
(* indices are pairwise distinct.                                          *)
C17_DistinctIndices ==
  /\ DistinctWhenCanonical(groups, "txt")
  /\ DistinctWhenCanonical(jsonGroups, "json")

C17_Witness ==
  /\ Len(groups) = 1
  /\ Len(groups[1].files) = 3
  /\ \A j \in 1..3 : CanonicalIndex(groups[1].files[j].fileName, "txt")
  /\ DistinctIndices(groups[1].files)

(* ==================== properties of the re-indexer ===================== *)
JsonGroupOf(base) ==
  jsonGroups[CHOOSE k \in 1..Len(jsonGroups) : jsonGroups[k].baseName = base]

HoldsChunks(info) == info.fileName \notin damaged

(* the chunk lists of a group's source records, in the group's order *)
SourceLists(base) ==
  LET members == SelectSeq(JsonGroupOf(base).files, HoldsChunks)
  IN [j \in 1..Len(members) |-> ChunksOf(members[j].fileName, variant)]

RECURSIVE Flatten(_)
Flatten(lists) ==
  IF lists = <<>> THEN <<>> ELSE Head(lists) \o Flatten(Tail(lists))

RECURSIVE SumOfLengths(_)
SumOfLengths(lists) ==
  IF lists = <<>> THEN 0 ELSE Len(Head(lists)) + SumOfLengths(Tail(lists))

(* C18: in every chunk list the re-indexer produces, and in every file it  *)
(* writes, the chunkNumber at position i is i: 1, 2, ..., N.               *)
C18_ContiguousFromOne ==
  /\ \A k \in 1..Len(reindexLog) :
       \A i \in 1..Len(reindexLog[k].chunks) :
         reindexLog[k].chunks[i].chunkNumber = i
  /\ \A k \in 1..Len(cleanStitched) :
       \A i \in 1..Len(cleanStitched[k].value.json.chunks) :
         cleanStitched[k].value.json.chunks[i].chunkNumber = i

C18_Witness ==
  /\ Len(reindexLog) = 1
  /\ reindexLog[1].saved
  /\ Len(reindexLog[1].chunks) >= 4
  /\ LET src == Flatten(SourceLists(reindexLog[1].baseName))
     IN /\ src[2].chunkNumber = src[3].chunkNumber
        /\ src[4].chunkNumber = 0
  /\ \A i \in 1..4 : reindexLog[1].chunks[i].chunkNumber = i

(* C19: the produced list is the concatenation of the source records'      *)
(* lists in ascending source index, its length the sum of their lengths,   *)
(* and every chunk keeps every field but chunkNumber.                      *)
C19_FlattenInOrder ==
  \A k \in 1..Len(reindexLog) :
    LET b == reindexLog[k].baseName
        out == reindexLog[k].chunks
        src == Flatten(SourceLists(b))
    IN /\ Ascending(JsonGroupOf(b).files)
       /\ Len(out) = SumOfLengths(SourceLists(b))
       /\ Len(out) = Len(src)
       /\ \A i \in 1..Len(out) :
            /\ DOMAIN out[i] = DOMAIN src[i] \cup {"chunkNumber"}
            /\ \A x \in DOMAIN src[i] \ {"chunkNumber"} : out[i][x] = src[i][x]

C19_Witness ==
  /\ Len(reindexLog) = 1
  /\ jsonFileNames = <<JsonFileName(<<"doc">>, <<"1", "0">>),
                       JsonFileName(<<"doc">>, <<"1">>)>>
  /\ damaged = {}
  /\ Len(reindexLog[1].chunks) = 4
  /\ reindexLog[1].chunks[1].cleanedText = "doc-1.json#1"
  /\ reindexLog[1].chunks[2].summary = "s1"
  /\ reindexLog[1].chunks[3].cleanedText = "doc-10.json#1"
  /\ "summary" \notin DOMAIN reindexLog[1].chunks[3]

(* the re-index operation on given source lists: merge, then renumber *)
Reindexed(lists) == Renumber(Flatten(lists))

(* C20: re-indexing a group whose only source record holds a chunk list    *)
(* the re-indexer produced gives that chunk list again.                    *)
C20_Idempotent ==
  \A k \in 1..Len(reindexLog) :
    Reindexed(<<reindexLog[k].chunks>>) = reindexLog[k].chunks

C20_Witness ==
  /\ Len(reindexLog) = 2
  /\ Len(reindexLog[2].chunks) = 2
  /\ Len(reindexLog[1].chunks) = 0
  /\ Reindexed(<<reindexLog[2].chunks>>) = reindexLog[2].chunks
  /\ Flatten(SourceLists(reindexLog[2].baseName)) # reindexLog[2].chunks

ReindexSavedAs(name) ==
  {k \in 1..Len(reindexLog) :
     reindexLog[k].finalFileName = name /\ reindexLog[k].saved}

(* C21: for every document the re-indexer writes, the length stored in the *)
(* metadata is the character count of the content written to its file.    *)
C21_LengthOfWrittenContent ==
  \A name \in Keys(reindexMetadata) :
    /\ name \in Keys(cleanStitched)
    /\ ValueOf(reindexMetadata, name).length
         = WrittenLength(ValueOf(cleanStitched, name))

(* What the re-indexer records: the length of the compact form of the     *)
(* written JSON value, which is shorter than the written content.          *)
CompactLengthRecorded ==
  \A name \in Keys(reindexMetadata) :
    /\ name \in Keys(cleanStitched)
    /\ ValueOf(reindexMetadata, name).length
         = JsonLength(ValueOf(cleanStitched, name).json)
    /\ ValueOf(reindexMetadata, name).length
         < WrittenLength(ValueOf(cleanStitched, name))

TextsOf(cs) == [i \in 1..Len(cs) |-> cs[i].cleanedText]

RECURSIVE TokenModeWindows(_, _, _, _)
TokenModeWindows(from, n, size, ov) ==
  IF from >= n THEN <<>>
  ELSE LET end == WindowEnd(from, size, n)
       IN <<[start |-> from, end |-> end]>>
            \o (IF end = n THEN <<>>
                ELSE TokenModeWindows(NextStart(end, ov), n, size, ov))

SplitFinished == cpc = "save"

(* C27: the character-mode splitter cuts every content into the windows    *)
(* the token-mode rule cuts a sequence of as many units into: the same     *)
(* number of windows with the same bounds.                                 *)
C27_SameWindows ==
  SplitFinished
    => charWindows = TokenModeWindows(0, Len(content), CHUNK_SIZE, OVERLAP)

HasCharMarker(c) ==
  \E i \in 1..Len(c) : c[i] \in {CHAR_OVERLAP_START, CHAR_OVERLAP_END}

StartsWithSpan(c) ==
  /\ Len(c) >= 5
  /\ c[1] = CHAR_OVERLAP_START
  /\ c[2] = NL
  /\ \E i \in 3..(Len(c) - 2) :
       c[i] = NL /\ c[i + 1] = CHAR_OVERLAP_END /\ c[i + 2] = NL

(* where the line break before the end marker of the leading span is *)
SpanClose(c) ==
  CHOOSE i \in 3..(Len(c) - 2) :
    /\ c[i] = NL /\ c[i + 1] = CHAR_OVERLAP_END /\ c[i + 2] = NL
    /\ \A j \in 3..(i - 1) :
         ~(c[j] = NL /\ c[j + 1] = CHAR_OVERLAP_END /\ c[j + 2] = NL)

Enclosed(c) == SubSeq(c, 3, SpanClose(c) - 1)

StripCharSpan(c) ==
  IF StartsWithSpan(c) THEN SubSeq(c, SpanClose(c) + 3, Len(c)) ELSE c

IsSuffix(x, y) ==
  Len(x) <= Len(y) /\ x = SubSeq(y, Len(y) - Len(x) + 1, Len(y))

RawWindow(k) == Substring(content, charWindows[k].start, charWindows[k].end)

RECURSIVE Recovered(_, _)
Recovered(cs, k) ==
  IF k > Len(cs) THEN <<>>
  ELSE (IF k = 1 THEN cs[k] ELSE StripCharSpan(cs[k])) \o Recovered(cs, k + 1)

(* C28: for content without marker literals, chunk 1 carries no marker,    *)
(* every later chunk starts with exactly one span whose enclosed text is a *)
(* suffix of the previous chunk's raw window, and chunk 1 followed by the  *)
(* later chunks without their span is the content.                         *)
C28_Recoverable ==
  (SplitFinished /\ ~HasCharMarker(content)) =>
    /\ \A k \in 1..Len(charChunks) :
         IF k = 1
         THEN ~HasCharMarker(charChunks[k]) /\ charChunks[k] = RawWindow(k)
         ELSE /\ StartsWithSpan(charChunks[k])
              /\ Count(charChunks[k], CHAR_OVERLAP_START) = 1
              /\ Count(charChunks[k], CHAR_OVERLAP_END) = 1
              /\ IsSuffix(Enclosed(charChunks[k]), RawWindow(k - 1))
              /\ Len(Enclosed(charChunks[k]))
                   = Min(OVERLAP, Len(RawWindow(k)))
    /\ Recovered(charChunks, 1) = content

C28_Witness ==
  /\ SplitFinished
  /\ ~HasCharMarker(content)
  /\ Len(content) = 10
  /\ CHUNK_SIZE = 4
  /\ OVERLAP = 2
  /\ Len(charChunks) = 5
  /\ Enclosed(charChunks[2]) = <<"c3", "c4">>
  /\ Enclosed(charChunks[5]) = <<"c9", "c10">>
  /\ Recovered(charChunks, 1) = content

(* ===================== properties of runConcurrent ===================== *)
InFlight == {i \in 1..Len(taskState) : taskState[i] = "started"}

(* C23: in every state the tasks that were started and have not settled    *)
(* are at most limit many.                                                 *)
C23_AtMostLimitInFlight ==
  /\ Cardinality(InFlight) <= limit
  /\ running <= limit

C23_Witness ==
  /\ Len(tasks) = 4
  /\ limit = 2
  /\ taskState = <<"started", "fulfilled", "started", "pending">>
  /\ Cardinality(InFlight) = limit

NoTaskRejects == \A i \in 1..Len(tasks) : tasks[i] = "fulfils"

Called == promise # "none"

Resolved == promise = "resolved"

ResolvedInOrder ==
  /\ Called => /\ \A i \in 1..Len(tasks) : starts[i] <= 1
               /\ resolveCalls <= 1
  /\ Resolved => /\ resolveCalls = 1
                 /\ Len(results) = Len(tasks)
                 /\ \A i \in 1..Len(tasks) :
                      /\ starts[i] = 1
                      /\ taskState[i] = "fulfilled"
                      /\ results[i] = ResultOf(i)
  /\ (Called /\ tasks = <<>>) => (Resolved /\ results = <<>>)

(* C29: when no task rejects and every started task settles, every task    *)
(* is started at most once and, by the time the promise resolves, exactly  *)
(* once; the promise resolves, once, only when all tasks have fulfilled,   *)
(* with task i's result at position i; for an empty task list it is        *)
(* resolved with an empty array by the call itself.                        *)
C29_ResolvesInOrder ==
  /\ [](NoTaskRejects => ResolvedInOrder)
  /\ NoTaskRejects ~> Resolved

C29_Witness ==
  /\ NoTaskRejects
  /\ Len(tasks) = 4
  /\ limit = 2
  /\ Resolved
  /\ results = [i \in 1..4 |-> ResultOf(i)]

(* ===================== properties of the drivers ======================= *)
CleanFinal == {"skipped", "read error", "api error", "write error", "saved"}

CleanRunOver == mpc = "done"

(* Every call of processFile was made and has returned, the files whose    *)
(* handling does not fail were skipped or saved, and the promise of        *)
(* runConcurrent was resolved.                                             *)
CleanAllCompleted ==
  /\ promise = "resolved"
  /\ \A i \in 1..Len(filePc) :
       /\ starts[i] = 1
       /\ filePc[i] \in CleanFinal
       /\ inputFiles[i] \notin faulty => filePc[i] \in {"skipped", "saved"}

(* main was ended by the upsert of a batch. *)
UpsertFailed == epc = "fatal" /\ batchIdx > 0

EmbedRunOver == epc \in {"done", "fatal"}

EmbedAllCompleted == \A i \in 1..Len(embedPc) : i \in Settled(embedPc)

EmbedSiblingCompleted ==
  /\ epc = "done"
  /\ \E i, j \in 1..Len(embedPc) :
       /\ i < j
       /\ embedPc[i] = "read error"
       /\ embedPc[j] = "returned"
       /\ VectorIdsOf(limited[j]) \subseteq store
       /\ limited[j] \notin logAtStart

(* processFile was called for the i-th selected file. *)
PassedToProcessFile(i) == embedPc[i] \notin {"waiting", "queued"}

EmbedNeverReprocessed ==
  \A i \in 1..Len(embedPc) :
    limited[i] \in logAtStart => ~PassedToProcessFile(i)

(* No input whose output file is there from an earlier run is sent to the  *)
(* cleaning API.                                                           *)
CleanNeverSent ==
  \A i \in 1..Len(inputFiles) :
    outputFolder[OutputNameOf(stage, inputFiles[i])] = Earlier
      => inputFiles[i] \notin sentToOpenAI

(* No step writes over an output file of an earlier run. *)
ExistingKept ==
  \A name \in DOMAIN outputFolder :
    outputFolder[name] = Earlier => outputFolder'[name] = Earlier

(* C25: a file already marked processed is never reprocessed: the          *)
(* embedding driver never passes a name that processed_files.json holds at *)
(* the start of the run to processFile, and a cleaning driver (OVERWRITE = *)
(* false) never sends a file whose output exists to the cleaning API and   *)
(* leaves that output unchanged.                                           *)
C25_NeverReprocessed ==
  /\ [](EmbedNeverReprocessed /\ CleanNeverSent)
  /\ [][ExistingKept]_vars

(* What holds of the embedding driver: when loadProcessedFiles returns the *)
(* persisted names, none of them is selected for the run.                  *)
LoadedSetRespected ==
  [][epc = "load" /\ processedFiles' = processedLog
       => \A i \in 1..Len(limited') : limited'[i] \notin logAtStart]_vars

(* What holds of the cleaning drivers: existing outputs are skipped and    *)
(* kept.                                                                   *)
CleanSkipsExisting == []CleanNeverSent /\ [][ExistingKept]_vars

(* A vector for every chunk of the file is in the store. *)
FullyUpserted(fileName) == VectorIdsOf(fileName) \subseteq store

(* The i-th selected file met a read, parse or embedding error. *)
FailedFile(i) == i \in Failing(embedPc, chunkAt, vectorsOf)

(* C26: the processed-files log gives at-least-once semantics: every name  *)
(* in processed_files.json is that of a file with a vector for each of its *)
(* chunks in the store, and a file whose read, JSON parse or chunk         *)
(* embedding failed in this run is not put into the log, so a later run    *)
(* selects it again.                                                       *)
C26_AtLeastOnce ==
  /\ \A f \in processedLog : FullyUpserted(f)
  /\ \A i \in 1..Len(embedPc) :
       FailedFile(i) /\ limited[i] \notin logAtStart
         => limited[i] \notin processedLog

(* What holds instead: a name enters the log when its batch is over,       *)
(* whatever became of the file.                                            *)
MarkedWithItsBatch ==
  \A f \in processedLog \ logAtStart :
    \E i \in 1..Len(limited) : limited[i] = f /\ i \in Settled(embedPc)

(* The vectors of the batches up to k that processFile returned are in the *)
(* store.                                                                  *)
BatchUpserted(k) ==
  \A i \in BatchOf(limited, k) :
    \A n \in 1..Len(vectorsOf[i]) : vectorsOf[i][n].id \in store

LogOnlyGrows == processedLog \subseteq processedLog'

(* A name enters the log only with a batch whose upsert has returned, or   *)
(* that produced no vector.                                                *)
AddedAfterUpsert ==
  \A f \in processedLog' \ processedLog :
    \E k \in 1..batchIdx : f \in BatchNames(limited, k) /\ BatchUpserted(k)

(* After a failed upsert no name of that batch is in the log that was not  *)
(* there before, and no call of a later batch was made.                    *)
AbortedCleanly ==
  UpsertFailed =>
    /\ BatchNames(limited, batchIdx) \cap processedLog \subseteq logAtStart
    /\ \A i \in 1..Len(embedPc) :
         i > batchIdx * FILE_PROCESS_LIMIT => embedPc[i] = "waiting"

(* C30: in the embedding driver processed_files.json only grows; a batch's *)
(* names are added only after the batch's upsert has returned or when the  *)
(* batch has no vector; after a failed upsert no name of that batch is     *)
(* added, no later batch is started, and the names added before stay.      *)
C30_LogGrowsAfterUpsert ==
  /\ [][LogOnlyGrows]_vars
  /\ [][AddedAfterUpsert]_vars
  /\ []AbortedCleanly

(* What holds of the order of upsert and marking, and of a failed upsert.  *)
MarkedAfterUpsert == [][AddedAfterUpsert]_vars /\ []AbortedCleanly

(* What holds of the log's growth: a write of the log keeps every name of  *)
(* the Set that loadProcessedFiles returned.                               *)
GrowsFromLoadedSet ==
  [][epc # "load" /\ processedLog \subseteq processedFiles => LogOnlyGrows]_vars

====
